---------------------------- MODULE Spec2Model ----------------------------
(***************************************************************************)
(* Model of src/src/api_server.c, the read-only statistics HTTP API of     *)
(* ckpool-atlaspool: the growable response buffer (safe_append), the       *)
(* case-insensitive resolver, the three aggregator operations, the         *)
(* request router, and api_server_init / api_server_stop.                  *)
(*                                                                         *)
(* Six specifications share the variables: SpecBuf (one buffer, append by  *)
(* append), Spec (one request at a time against a changing file system),   *)
(* SpecLife (two threads calling init, stop and set_log_dir, statement by  *)
(* statement), SpecLifeFair (the same under fair scheduling), SpecConn     *)
(* (two connection threads in handle_request at once) and SpecRes (one     *)
(* handle_request call followed block by block and handle by handle, with  *)
(* every call that can fail failing or not).                               *)
(*                                                                         *)
(* Byte strings are kept run-length encoded: a string is a sequence of     *)
(* runs [c |-> byte, n |-> count] in which neighbouring runs hold          *)
(* different bytes and every count is positive.  The encoding is           *)
(* canonical, so two strings are equal exactly when their encodings are,   *)
(* and the program's real sizes (64 KiB, 128 KiB, 10 MiB) are used as they *)
(* are.  A byte is a one-character string; "NUL" is the zero byte, "LF"    *)
(* the line feed and "UNINIT" a byte of heap memory never written.         *)
(*                                                                         *)
(* Environment assumptions of the specifications other than SpecRes:       *)
(* malloc, realloc and strdup succeed; record files hold text without a    *)
(* zero byte (the data model takes them to be JSON values).                *)
(***************************************************************************)
EXTENDS Integers, Sequences, FiniteSets, TLC

\* ------------------------------------------------------------------------
\* Byte strings
\* ------------------------------------------------------------------------

Rep(ch, k) == IF k <= 0 THEN <<>> ELSE <<[c |-> ch, n |-> k]>>

\* a and b joined (both canonical): only the seam can need merging.
Cat(a, b) ==
    IF a = <<>> THEN b
    ELSE IF b = <<>> THEN a
    ELSE IF a[Len(a)].c = b[1].c
         THEN SubSeq(a, 1, Len(a) - 1)
              \o <<[c |-> b[1].c, n |-> a[Len(a)].n + b[1].n]>>
              \o Tail(b)
         ELSE a \o b

\* Operators over a whole sequence recurse on halves of it, which keeps the
\* evaluation shallow however long the sequence is.

\* The runs lo..hi of any sequence of runs, made canonical.
RECURSIVE NormRange(_, _, _)
NormRange(s, lo, hi) ==
    IF lo > hi THEN <<>>
    ELSE IF lo = hi THEN Rep(s[lo].c, s[lo].n)
    ELSE LET mid == (lo + hi) \div 2
         IN  Cat(NormRange(s, lo, mid), NormRange(s, mid + 1, hi))

\* The string spelled by a tuple of bytes.
Str(t) == NormRange([i \in 1..Len(t) |-> [c |-> t[i], n |-> 1]], 1, Len(t))

\* The bytes in runs lo..hi.
RECURSIVE BLenRange(_, _, _)
BLenRange(s, lo, hi) ==
    IF lo > hi THEN 0
    ELSE IF lo = hi THEN s[lo].n
    ELSE LET mid == (lo + hi) \div 2
         IN  BLenRange(s, lo, mid) + BLenRange(s, mid + 1, hi)

\* strlen of a string held without its terminator: the number of bytes.
BLen(s) == BLenRange(s, 1, Len(s))

\* <<i, r>> for a byte offset k that falls in runs lo..hi, counted from the
\* start of run lo.
RECURSIVE SplitIn(_, _, _, _)
SplitIn(s, lo, hi, k) ==
    IF lo = hi THEN <<lo, k>>
    ELSE LET mid  == (lo + hi) \div 2
             left == BLenRange(s, lo, mid)
         IN  IF k < left THEN SplitIn(s, lo, mid, k)
             ELSE SplitIn(s, mid + 1, hi, k - left)

\* <<i, r>>: byte offset k of s falls in run i, r bytes into it
\* (i = Len(s) + 1 when k is at or past the end).
SplitFwd(s, i, k) ==
    IF k < 0 THEN <<1, k>>
    ELSE IF k >= BLen(s) THEN <<Len(s) + 1, k - BLen(s)>>
    ELSE SplitIn(s, 1, Len(s), k)

\* The first k bytes of s.
Take(s, k) ==
    LET p == SplitFwd(s, 1, k)
    IN  IF k <= 0 THEN <<>>
        ELSE IF p[1] > Len(s) THEN s
        ELSE Cat(SubSeq(s, 1, p[1] - 1), Rep(s[p[1]].c, p[2]))

\* s without its first k bytes.
Drop(s, k) ==
    LET p == SplitFwd(s, 1, k)
    IN  IF k <= 0 THEN s
        ELSE IF p[1] > Len(s) THEN <<>>
        ELSE Cat(Rep(s[p[1]].c, s[p[1]].n - p[2]), SubSeq(s, p[1] + 1, Len(s)))

\* <<i, r>>: the last `after` bytes of s start r bytes before the end of
\* run i (i = 0 when they are all of s).  Scans from the end, which is
\* where a buffer is written.
RECURSIVE SplitBack(_, _, _)
SplitBack(s, i, after) ==
    IF i = 0 \/ after < s[i].n THEN <<i, after>>
    ELSE SplitBack(s, i - 1, after - s[i].n)

\* The byte at offset k of s ("UNINIT" past the end: not the program's).
ByteAt(s, k) ==
    LET p == SplitFwd(s, 1, k)
    IN  IF k < 0 \/ p[1] > Len(s) THEN "UNINIT" ELSE s[p[1]].c

\* A C string read from memory: the bytes before the first zero byte.
CStr(mem) ==
    LET Z == {i \in 1..Len(mem) : mem[i].c = "NUL"}
    IN  IF Z = {} THEN mem
        ELSE SubSeq(mem, 1, (CHOOSE i \in Z : \A j \in Z : i <= j) - 1)

DigitChar == <<"0", "1", "2", "3", "4", "5", "6", "7", "8", "9">>

\* printf's %zu / %ld of a non-negative number.
RECURSIVE Dec(_)
Dec(k) ==
    IF k < 10 THEN Rep(DigitChar[k + 1], 1)
    ELSE Cat(Dec(k \div 10), Rep(DigitChar[(k % 10) + 1], 1))

\* tolower, byte by byte.
ToLower(ch) ==
    CASE ch = "A" -> "a" [] ch = "B" -> "b" [] ch = "C" -> "c"
      [] ch = "D" -> "d" [] ch = "E" -> "e" [] ch = "F" -> "f"
      [] ch = "G" -> "g" [] ch = "H" -> "h" [] ch = "I" -> "i"
      [] ch = "J" -> "j" [] ch = "K" -> "k" [] ch = "L" -> "l"
      [] ch = "M" -> "m" [] ch = "N" -> "n" [] ch = "O" -> "o"
      [] ch = "P" -> "p" [] ch = "Q" -> "q" [] ch = "R" -> "r"
      [] ch = "S" -> "s" [] ch = "T" -> "t" [] ch = "U" -> "u"
      [] ch = "V" -> "v" [] ch = "W" -> "w" [] ch = "X" -> "x"
      [] ch = "Y" -> "y" [] ch = "Z" -> "z" [] OTHER -> ch

\* s with tolower applied to every byte.
Lower(s) ==
    NormRange([i \in 1..Len(s) |-> [c |-> ToLower(s[i].c), n |-> s[i].n]], 1, Len(s))

\* strcmp(a, b) == 0
strcmp0(a, b) == a = b

\* strncmp(a, b, k) == 0
strncmp0(a, b, k) == Take(a, k) = Take(b, k)

\* strcasecmp(a, b) == 0
strcasecmp0(a, b) == Lower(a) = Lower(b)

\* snprintf(buf, size, ...): at most size - 1 bytes of the formatted text.
snprintf(size, text) == Take(text, size - 1)

\* ------------------------------------------------------------------------
\* Limits
\* ------------------------------------------------------------------------

MAX_RESPONSE_SIZE == 10 * 1024 * 1024
INITIAL_BUFFER_SIZE == 128 * 1024
MAX_USER_FILE_SIZE == 64 * 1024
\* buffer_size of read_pool_status
POOL_BUFFER_SIZE == 4096
\* the size of every malloc'ed message buffer
MSG_BUFFER_SIZE == 256

\* ------------------------------------------------------------------------
\* The growable buffer
\* ------------------------------------------------------------------------

\* A buffer is [mem, size, used]: the heap block (size bytes), *buffer_size
\* and *used.

\* malloc(size) followed by result[0] = '\0'
NewBuffer(size) ==
    [mem |-> Cat(Rep("NUL", 1), Rep("UNINIT", size - 1)), size |-> size, used |-> 0]

\* realloc(mem, new_size): the old bytes, then new_size - size fresh ones.
Realloc(mem, size, new_size) ==
    IF new_size >= size THEN Cat(mem, Rep("UNINIT", new_size - size))
    ELSE Take(mem, new_size)

\* memcpy(mem + off, src, k) into a block of `size` bytes.
MemCpy(mem, size, off, src, k) ==
    LET p     == SplitBack(mem, Len(mem), size - off)
        q     == SplitBack(mem, Len(mem), size - off - k)
        head  == IF p[1] = 0 THEN <<>>
                 ELSE Cat(SubSeq(mem, 1, p[1] - 1),
                          Rep(mem[p[1]].c, mem[p[1]].n - p[2]))
        tail  == IF q[1] = 0 THEN mem
                 ELSE Cat(Rep(mem[q[1]].c, q[2]), SubSeq(mem, q[1] + 1, Len(mem)))
    IN  IF k = 0 THEN mem ELSE Cat(Cat(head, Take(src, k)), tail)

\* GrowLoop without the byte reserved for the terminator.
RECURSIVE GrowLoop_NoTerminatorRoom(_, _, _)
GrowLoop_NoTerminatorRoom(b, str_len, reallocOK) ==
    IF b.used + str_len > b.size
    THEN IF b.size >= MAX_RESPONSE_SIZE
         THEN [rc |-> -1, b |-> b]
         ELSE LET dbl      == b.size * 2
                  new_size == IF dbl > MAX_RESPONSE_SIZE THEN MAX_RESPONSE_SIZE ELSE dbl
              IN  IF ~reallocOK
                  THEN [rc |-> -1, b |-> b]
                  ELSE GrowLoop_NoTerminatorRoom(
                           [b EXCEPT !.mem = Realloc(b.mem, b.size, new_size),
                                     !.size = new_size],
                           str_len, reallocOK)
    ELSE [rc |-> 0, b |-> b]

\* GrowLoop doubling without the cap at MAX_RESPONSE_SIZE.
RECURSIVE GrowLoop_Uncapped(_, _, _)
GrowLoop_Uncapped(b, str_len, reallocOK) ==
    IF b.used + str_len + 1 > b.size
    THEN IF b.size >= MAX_RESPONSE_SIZE
         THEN [rc |-> -1, b |-> b]
         ELSE IF ~reallocOK
              THEN [rc |-> -1, b |-> b]
              ELSE GrowLoop_Uncapped([b EXCEPT !.mem = Realloc(b.mem, b.size, b.size * 2),
                                               !.size = b.size * 2],
                                     str_len, reallocOK)
    ELSE [rc |-> 0, b |-> b]

\* The while loop of safe_append: grow until used + str_len + 1 fits.
\* [rc, b]: rc is -1 where the loop returns -1, b the buffer as it is then.
RECURSIVE GrowLoop(_, _, _)
GrowLoop(b, str_len, reallocOK) ==
    IF b.used + str_len + 1 > b.size
    THEN IF b.size >= MAX_RESPONSE_SIZE
         THEN [rc |-> -1, b |-> b]
         ELSE LET dbl      == b.size * 2
                  new_size == IF dbl > MAX_RESPONSE_SIZE THEN MAX_RESPONSE_SIZE ELSE dbl
              IN  IF ~reallocOK
                  THEN [rc |-> -1, b |-> b]
                  ELSE GrowLoop([b EXCEPT !.mem = Realloc(b.mem, b.size, new_size),
                                          !.size = new_size],
                                str_len, reallocOK)
    ELSE [rc |-> 0, b |-> b]

\* The rest of safe_append after the loop, g being what the loop left:
\* memcpy(*buffer + *used, str, str_len); *used += str_len;
\* (*buffer)[*used] = '\0'; return 0.
CopyIn(g, str, str_len) ==
    IF g.rc < 0 THEN g
    ELSE [rc |-> 0,
          b  |-> [mem  |-> MemCpy(MemCpy(g.b.mem, g.b.size, g.b.used, str, str_len),
                                  g.b.size, g.b.used + str_len, Rep("NUL", 1), 1),
                  size |-> g.b.size,
                  used |-> g.b.used + str_len]]

\* safe_append(&buffer, &buffer_size, &used, str, str_len):
\* [rc, b] with rc 0 or -1 and b the buffer afterwards.
safe_append(b, str, str_len, reallocOK) ==
    CopyIn(GrowLoop(b, str_len, reallocOK), str, str_len)

\* A build in progress is [rc, b]: rc is -1 once a safe_append has failed
\* (the function has left for its error return), b the buffer.  The next
\* safe_append(..., str, strlen(str)) of a build.
AppendTo(a, str) == IF a.rc < 0 THEN a ELSE safe_append(a.b, str, BLen(str), TRUE)

\* safe_append of strs[i], strs[i + 1], ... in turn, up to the first that
\* fails.
RECURSIVE AppendEach(_, _, _)
AppendEach(a, strs, i) ==
    IF i > Len(strs) THEN a ELSE AppendEach(AppendTo(a, strs[i]), strs, i + 1)

\* ------------------------------------------------------------------------
\* Heap blocks holding C strings, and message texts
\* ------------------------------------------------------------------------

\* strdup(text): a block holding the text and its terminator.
strdup(text) == Cat(text, Rep("NUL", 1))

\* result = malloc(size); snprintf(result, size, ...) printing `text`.
MallocPrintf(size, text) ==
    LET t == snprintf(size, text)
    IN  Cat(Cat(t, Rep("NUL", 1)), Rep("UNINIT", size - BLen(t) - 1))

\* result = malloc(size); k = fread(result, 1, size - 1, fp); result[k] = 0,
\* with `data` the bytes fread delivers.
MallocRead(size, data) ==
    LET k == BLen(data)
    IN  MemCpy(MemCpy(Rep("UNINIT", size), size, 0, data, k), size, k, Rep("NUL", 1), 1)

\* read_pool_status: the body when the status file cannot be opened
MSG_POOL_OPEN ==
    Str(<<"{", "\"", "e", "r", "r", "o", "r", "\"", ":", "\"", "C", "a",
          "n", "n", "o", "t", " ", "o", "p", "e", "n", " ", "p", "o",
          "o", "l", " ", "s", "t", "a", "t", "u", "s", " ", "f", "i",
          "l", "e", "\"", "}">>)
\* the body when a buffer cannot be allocated
MSG_MEMORY ==
    Str(<<"{", "\"", "e", "r", "r", "o", "r", "\"", ":", "\"", "M", "e",
          "m", "o", "r", "y", " ", "a", "l", "l", "o", "c", "a", "t",
          "i", "o", "n", " ", "f", "a", "i", "l", "e", "d", "\"", "}">>)
\* the body returned when safe_append fails
MSG_OVERFLOW ==
    Str(<<"{", "\"", "e", "r", "r", "o", "r", "\"", ":", "\"", "B", "u",
          "f", "f", "e", "r", " ", "o", "v", "e", "r", "f", "l", "o",
          "w", "\"", "}">>)
\* read_user_stats: the body when opendir fails
MSG_USERS_DIR ==
    Str(<<"{", "\"", "e", "r", "r", "o", "r", "\"", ":", "\"", "C", "a",
          "n", "n", "o", "t", " ", "o", "p", "e", "n", " ", "u", "s",
          "e", "r", "s", " ", "d", "i", "r", "e", "c", "t", "o", "r",
          "y", "\"", "}">>)
\* handle_request: the body for a method other than GET
MSG_METHOD ==
    Str(<<"{", "\"", "e", "r", "r", "o", "r", "\"", ":", "\"", "O", "n",
          "l", "y", " ", "G", "E", "T", " ", "m", "e", "t", "h", "o",
          "d", " ", "s", "u", "p", "p", "o", "r", "t", "e", "d", "\"", "}">>)
\* handle_request: the body for an address of bad length
MSG_INVALID_ADDRESS ==
    Str(<<"{", "\"", "e", "r", "r", "o", "r", "\"", ":", "\"", "I", "n",
          "v", "a", "l", "i", "d", " ", "u", "s", "e", "r", " ", "a",
          "d", "d", "r", "e", "s", "s", "\"", "}">>)
\* handle_request: the capability descriptor
MSG_ROOT ==
    Str(<<"{", "\"", "n", "a", "m", "e", "\"", ":", "\"", "C", "K", "P",
          "o", "o", "l", " ", "A", "P", "I", " ", "S", "e", "r", "v",
          "e", "r", "\"", ",", "\"", "v", "e", "r", "s", "i", "o", "n",
          "\"", ":", "\"", "1", ".", "0", ".", "1", "-", "p", "a", "t",
          "c", "h", "e", "d", "\"", ",", "\"", "e", "n", "d", "p", "o",
          "i", "n", "t", "s", "\"", ":", "[", "\"", "/", "a", "p", "i",
          "/", "s", "t", "a", "t", "u", "s", "\"", ",", "\"", "/", "a",
          "p", "i", "/", "p", "o", "o", "l", "\"", ",", "\"", "/", "a",
          "p", "i", "/", "u", "s", "e", "r", "s", "\"", ",", "\"", "/",
          "a", "p", "i", "/", "u", "s", "e", "r", "s", "/", "{", "a",
          "d", "d", "r", "e", "s", "s", "}", "\"", "]", "}">>)
\* the snprintf formats, cut at their conversions
FMT_USER_NOT_FOUND ==
    Str(<<"{", "\"", "e", "r", "r", "o", "r", "\"", ":", "\"", "U", "s",
          "e", "r", " ", "n", "o", "t", " ", "f", "o", "u", "n", "d",
          "\"", ",", "\"", "a", "d", "d", "r", "e", "s", "s", "\"", ":",
          "\"">>)
FMT_TOO_LARGE_A ==
    Str(<<"{", "\"", "e", "r", "r", "o", "r", "\"", ":", "\"", "U", "s",
          "e", "r", " ", "f", "i", "l", "e", " ", "t", "o", "o", " ",
          "l", "a", "r", "g", "e", " ", "(">>)
FMT_TOO_LARGE_B ==
    Str(<<" ", "b", "y", "t", "e", "s", ")", "\"", ",", "\"", "a", "d",
          "d", "r", "e", "s", "s", "\"", ":", "\"">>)
FMT_CANNOT_OPEN ==
    Str(<<"{", "\"", "e", "r", "r", "o", "r", "\"", ":", "\"", "C", "a",
          "n", "n", "o", "t", " ", "o", "p", "e", "n", " ", "u", "s",
          "e", "r", " ", "f", "i", "l", "e", "\"", ",", "\"", "a", "d",
          "d", "r", "e", "s", "s", "\"", ":", "\"">>)
FMT_NOT_FOUND ==
    Str(<<"{", "\"", "e", "r", "r", "o", "r", "\"", ":", "\"", "N", "o",
          "t", " ", "f", "o", "u", "n", "d", "\"", ",", "\"", "p", "a",
          "t", "h", "\"", ":", "\"">>)
FMT_CLOSE ==
    Str(<<"\"", "}">>)
FMT_STATUS_A ==
    Str(<<"{", "\"", "s", "t", "a", "t", "u", "s", "\"", ":", "\"", "o",
          "k", "\"", ",", "\"", "t", "i", "m", "e", "s", "t", "a", "m",
          "p", "\"", ":">>)
FMT_STATUS_B ==
    Str(<<",", "\"", "m", "e", "s", "s", "a", "g", "e", "\"", ":", "\"",
          "C", "K", "P", "o", "o", "l", " ", "A", "P", "I", " ", "S",
          "e", "r", "v", "e", "r", " ", "i", "s", " ", "r", "u", "n",
          "n", "i", "n", "g", "\"", "}">>)
\* the paths handle_request compares the url with
URL_ROOT ==
    Str(<<"/">>)
URL_STATUS ==
    Str(<<"/", "a", "p", "i", "/", "s", "t", "a", "t", "u", "s">>)
URL_STATUS_SLASH ==
    Str(<<"/", "a", "p", "i", "/", "s", "t", "a", "t", "u", "s", "/">>)
URL_POOL ==
    Str(<<"/", "a", "p", "i", "/", "p", "o", "o", "l">>)
URL_POOL_SLASH ==
    Str(<<"/", "a", "p", "i", "/", "p", "o", "o", "l", "/">>)
URL_USERS ==
    Str(<<"/", "a", "p", "i", "/", "u", "s", "e", "r", "s">>)
URL_USERS_SLASH ==
    Str(<<"/", "a", "p", "i", "/", "u", "s", "e", "r", "s", "/">>)
DOT == Str(<<".">>)
DOTDOT == Str(<<".", ".">>)
COMMA == Str(<<",">>)
QUOTE == Str(<<"\"">>)
QUOTE_COLON == Str(<<"\"", ":">>)

MHD_HTTP_OK == 200
MHD_HTTP_BAD_REQUEST == 400
MHD_HTTP_NOT_FOUND == 404
MHD_HTTP_METHOD_NOT_ALLOWED == 405
\* the length of "/api/users/" in the strncmp of handle_request
USERS_PREFIX_LEN == 11
\* an address must be shorter than this
ADDRESS_LIMIT == 100
\* read_pool_status reads this many lines
POOL_LINES == 3

\* ------------------------------------------------------------------------
\* The file system and the pool engine writing it
\* ------------------------------------------------------------------------

\* A file system is [usersOK, users, poolOK, pool]: whether the users
\* directory can be opened, its entries in readdir order (each
\* [name, content]; "." and ".." are among them), whether pool/pool.status
\* can be opened, and its content.
\*
\* The pool engine may touch one user file while a request is handled:
\* [at |-> "none"], or [at, name, new] where the file `name` is unlinked
\* just before the handler's stat of it (at = "stat") or its fopen
\* ("open"), or is rewritten in place with `new` just before its fread
\* ("read").
NoRace == [at |-> "none", name |-> <<>>, new |-> <<>>]

Hits(race, at, name) == race.at = at /\ race.name = name

\* One file-system call of a handler, for the record of what it did.
Op(op, dir, name, ok) == [op |-> op, dir |-> dir, name |-> name, ok |-> ok]

NULL == [null |-> TRUE, s |-> <<>>]
Ptr(s) == [null |-> FALSE, s |-> s]

\* The entry of the users directory that a path names.
FileOf(fs, name) ==
    fs.users[CHOOSE i \in 1..Len(fs.users) : fs.users[i].name = name]

\* ------------------------------------------------------------------------
\* find_user_file_case_insensitive
\* ------------------------------------------------------------------------

\* The body of the readdir loop with strcmp for strcasecmp.
FindStep_CaseSensitive(entry, address) ==
    IF strcmp0(entry.name, DOT) \/ strcmp0(entry.name, DOTDOT) THEN NULL
    ELSE IF strcmp0(entry.name, address) THEN Ptr(entry.name)
    ELSE NULL

\* The comparison without `continue` for "." and "..".
FindStep_NoSkip(entry, address) ==
    IF strcasecmp0(entry.name, address) THEN Ptr(entry.name) ELSE NULL

\* The body of the readdir loop for one entry: "." and ".." are passed
\* over; an entry that strcasecmp finds equal to the address is copied
\* into result.
FindStep(entry, address) ==
    IF strcmp0(entry.name, DOT) \/ strcmp0(entry.name, DOTDOT) THEN NULL
    ELSE IF strcasecmp0(entry.name, address) THEN Ptr(entry.name)
    ELSE NULL

\* The readdir loop without its break: the last entry that matches is the
\* one returned.
RECURSIVE FindLoop_Last(_, _, _, _)
FindLoop_Last(entries, lo, hi, address) ==
    IF lo > hi THEN NULL
    ELSE IF lo = hi THEN FindStep(entries[lo], address)
    ELSE LET mid   == (lo + hi) \div 2
             right == FindLoop_Last(entries, mid + 1, hi, address)
         IN  IF ~right.null THEN right
             ELSE FindLoop_Last(entries, lo, mid, address)

\* The readdir loop over entries lo..hi, in order, left at the first entry
\* that sets result (break).
RECURSIVE FindLoop(_, _, _, _)
FindLoop(entries, lo, hi, address) ==
    IF lo > hi THEN NULL
    ELSE IF lo = hi THEN FindStep(entries[lo], address)
    ELSE LET mid  == (lo + hi) \div 2
             left == FindLoop(entries, lo, mid, address)
         IN  IF ~left.null THEN left
             ELSE FindLoop(entries, mid + 1, hi, address)

find_user_file_case_insensitive(fs, address) ==
    IF ~fs.usersOK
    THEN [result |-> NULL, ops |-> <<Op("opendir", "users", <<>>, FALSE)>>]
    ELSE [result |-> FindLoop(fs.users, 1, Len(fs.users), address),
          ops    |-> <<Op("opendir", "users", <<>>, TRUE),
                       Op("closedir", "users", <<>>, TRUE)>>]

\* ------------------------------------------------------------------------
\* read_single_user_stats
\* ------------------------------------------------------------------------

\* The user-not-found object printed without its argument.
UserNotFound_NoAddress(address) ==
    MallocPrintf(MSG_BUFFER_SIZE, Cat(FMT_USER_NOT_FOUND, FMT_CLOSE))

UserNotFound(address) ==
    MallocPrintf(MSG_BUFFER_SIZE, Cat(Cat(FMT_USER_NOT_FOUND, address), FMT_CLOSE))

UserTooLarge(file_size, address) ==
    MallocPrintf(MSG_BUFFER_SIZE,
                 Cat(Cat(Cat(Cat(FMT_TOO_LARGE_A, Dec(file_size)), FMT_TOO_LARGE_B),
                         address), FMT_CLOSE))

UserCannotOpen(address) ==
    MallocPrintf(MSG_BUFFER_SIZE, Cat(Cat(FMT_CANNOT_OPEN, address), FMT_CLOSE))

\* The size test of read_single_user_stats, with >= for >.
TooLarge_Inclusive(file_size) == file_size >= MAX_USER_FILE_SIZE

\* file_size > MAX_USER_FILE_SIZE
TooLarge(file_size) == file_size > MAX_USER_FILE_SIZE

\* read_single_user_stats once the resolver has returned f.
ReadResolved(fs, address, race, f) ==
    LET actual    == f.result.s
        file      == FileOf(fs, actual)
        file_size == BLen(file.content)
    IN  IF f.result.null
        THEN [result |-> UserNotFound(address), ops |-> f.ops, overflow |-> FALSE,
              actual |-> f.result]
        ELSE IF Hits(race, "stat", actual)
        THEN [result |-> UserNotFound(address),
              ops    |-> f.ops \o <<Op("stat", "users", actual, FALSE)>>,
              overflow |-> FALSE, actual |-> f.result]
        ELSE IF TooLarge(file_size)
        THEN [result |-> UserTooLarge(file_size, address),
              ops    |-> f.ops \o <<Op("stat", "users", actual, TRUE)>>,
              overflow |-> FALSE, actual |-> f.result]
        ELSE IF Hits(race, "open", actual)
        THEN [result |-> UserCannotOpen(address),
              ops    |-> f.ops \o <<Op("stat", "users", actual, TRUE),
                                    Op("fopen", "users", actual, FALSE)>>,
              overflow |-> FALSE, actual |-> f.result]
        ELSE [result |-> MallocRead(file_size + 1,
                             Take(IF Hits(race, "read", actual) THEN race.new
                                  ELSE file.content, file_size)),
              ops    |-> f.ops \o <<Op("stat", "users", actual, TRUE),
                                    Op("fopen", "users", actual, TRUE),
                                    Op("fread", "users", actual, TRUE),
                                    Op("fclose", "users", actual, TRUE)>>,
              overflow |-> FALSE, actual |-> f.result]

\* [result, ops, overflow, actual]: the block returned, the file-system
\* calls made, whether a safe_append failed (never, here) and what the
\* resolver returned.
read_single_user_stats(fs, address, race) ==
    ReadResolved(fs, address, race, find_user_file_case_insensitive(fs, address))

\* ------------------------------------------------------------------------
\* read_user_stats
\* ------------------------------------------------------------------------

\* The separator test of read_user_stats, appending a comma before every
\* entry.
Separator_Always(first) == <<COMMA>>

\* if (!first) append ","
Separator(first) == IF first THEN <<>> ELSE <<COMMA>>

\* The body of the readdir loop giving up the build at the first entry
\* that cannot be taken, where the code says `continue`.
UsersStep_StopOnFailure(fs, race, i, st) ==
    LET e       == fs.users[i]
        st_size == BLen(e.content)
    IN  IF st.a.rc < 0 THEN st
        ELSE IF ByteAt(e.name, 0) = "." THEN st
        ELSE IF \/ Hits(race, "stat", e.name)
                \/ st_size > MAX_USER_FILE_SIZE
                \/ Hits(race, "open", e.name)
        THEN [st EXCEPT !.a.rc = -1,
                        !.ops = @ \o <<Op("stat", "users", e.name, FALSE)>>]
        ELSE [a     |-> AppendEach(st.a,
                            Separator(st.first)
                            \o <<QUOTE, e.name, QUOTE_COLON, Take(e.content, st_size)>>, 1),
              first |-> FALSE,
              ops   |-> st.ops \o <<Op("stat", "users", e.name, TRUE),
                                    Op("fopen", "users", e.name, TRUE),
                                    Op("fread", "users", e.name, TRUE),
                                    Op("fclose", "users", e.name, TRUE)>>]

\* The body of the readdir loop appending all the file holds when it is
\* read, whatever size stat gave.
UsersStep_ReadAll(fs, race, i, st) ==
    LET e       == fs.users[i]
        st_size == BLen(e.content)
    IN  IF st.a.rc < 0 THEN st
        ELSE IF ByteAt(e.name, 0) = "." THEN st
        ELSE IF Hits(race, "stat", e.name) \/ Hits(race, "open", e.name) THEN st
        ELSE IF st_size > MAX_USER_FILE_SIZE THEN st
        ELSE [a     |-> AppendEach(st.a,
                            Separator(st.first)
                            \o <<QUOTE, e.name, QUOTE_COLON,
                                 IF Hits(race, "read", e.name) THEN race.new
                                 ELSE e.content>>, 1),
              first |-> FALSE,
              ops   |-> st.ops \o <<Op("stat", "users", e.name, TRUE),
                                    Op("fopen", "users", e.name, TRUE),
                                    Op("fread", "users", e.name, TRUE),
                                    Op("fclose", "users", e.name, TRUE)>>]

\* The body of the readdir loop of read_user_stats for entry i, from the
\* loop state [a, first, ops]: the build, the flag, the calls made.
UsersStep(fs, race, i, st) ==
    LET e       == fs.users[i]
        st_size == BLen(e.content)
    IN  IF st.a.rc < 0 THEN st
        ELSE IF ByteAt(e.name, 0) = "." THEN st
        ELSE IF Hits(race, "stat", e.name)
        THEN [st EXCEPT !.ops = @ \o <<Op("stat", "users", e.name, FALSE)>>]
        ELSE IF st_size > MAX_USER_FILE_SIZE
        THEN [st EXCEPT !.ops = @ \o <<Op("stat", "users", e.name, TRUE)>>]
        ELSE IF Hits(race, "open", e.name)
        THEN [st EXCEPT !.ops = @ \o <<Op("stat", "users", e.name, TRUE),
                                       Op("fopen", "users", e.name, FALSE)>>]
        ELSE [a     |-> AppendEach(st.a,
                            Separator(st.first)
                            \o <<QUOTE, e.name, QUOTE_COLON,
                                 Take(IF Hits(race, "read", e.name) THEN race.new
                                      ELSE e.content, st_size)>>, 1),
              first |-> FALSE,
              ops   |-> st.ops \o <<Op("stat", "users", e.name, TRUE),
                                    Op("fopen", "users", e.name, TRUE),
                                    Op("fread", "users", e.name, TRUE),
                                    Op("fclose", "users", e.name, TRUE)>>]

\* The readdir loop of read_user_stats over entries lo..hi, in order.
RECURSIVE UsersLoop(_, _, _, _, _)
UsersLoop(fs, race, lo, hi, st) ==
    IF lo > hi THEN st
    ELSE IF lo = hi THEN UsersStep(fs, race, lo, st)
    ELSE LET mid  == (lo + hi) \div 2
             left == UsersLoop(fs, race, lo, mid, st)
         IN  IF left.a.rc < 0 THEN left
             ELSE UsersLoop(fs, race, mid + 1, hi, left)

\* What an aggregator returns when a safe_append failed, were it to hand
\* out the buffer built so far.
OnOverflow_Partial(b) == b.mem

\* free(result); return strdup("{\"error\":\"Buffer overflow\"}")
OnOverflow(b) == strdup(MSG_OVERFLOW)

\* The return of an aggregator whose build ended as a, after `ops`.
Built(a, ops) ==
    [result   |-> IF a.rc < 0 THEN OnOverflow(a.b) ELSE a.b.mem,
     ops      |-> ops,
     overflow |-> a.rc < 0,
     actual   |-> NULL]

\* The end of read_user_stats, l being what the loop left: closedir, the
\* closing brace, return.
UsersEnd(l) ==
    Built(AppendTo(l.a, Str(<<"}">>)),
          l.ops \o <<Op("closedir", "users", <<>>, TRUE)>>)

\* [result, ops, overflow, actual]
read_user_stats(fs, race) ==
    IF ~fs.usersOK
    THEN [result |-> strdup(MSG_USERS_DIR),
          ops |-> <<Op("opendir", "users", <<>>, FALSE)>>,
          overflow |-> FALSE, actual |-> NULL]
    ELSE UsersEnd(UsersLoop(fs, race, 1, Len(fs.users),
                            [a     |-> AppendTo([rc |-> 0,
                                                 b |-> NewBuffer(INITIAL_BUFFER_SIZE)],
                                                Str(<<"{">>)),
                             first |-> TRUE,
                             ops   |-> <<Op("opendir", "users", <<>>, TRUE)>>]))

\* ------------------------------------------------------------------------
\* read_pool_status
\* ------------------------------------------------------------------------

\* getline on the unread part of the file: the bytes up to and with the
\* first line feed (all of them when there is none), and what is left.
GetLine(rest) ==
    LET L == {i \in 1..Len(rest) : rest[i].c = "LF"}
        j == CHOOSE i \in L : \A k \in L : i <= k
    IN  IF L = {} THEN [line |-> rest, rest |-> <<>>]
        ELSE [line |-> Cat(SubSeq(rest, 1, j - 1), Rep("LF", 1)),
              rest |-> Cat(Rep("LF", rest[j].n - 1), SubSeq(rest, j + 1, Len(rest)))]

\* The line appended with its newline left on.
Chomp_Keep(line) == line

\* if (read > 0 && line[read - 1] == '\n') read--; the `read` bytes of
\* the line that are appended.
Chomp(line) ==
    LET read == BLen(line)
    IN  IF read > 0 /\ ByteAt(line, read - 1) = "LF" THEN Take(line, read - 1)
        ELSE line

\* The getline loop of read_pool_status from the build a.
RECURSIVE PoolLoop(_, _, _)
PoolLoop(rest, line_num, a) ==
    IF a.rc < 0 \/ rest = <<>> \/ ~(line_num < POOL_LINES) THEN a
    ELSE PoolLoop(GetLine(rest).rest, line_num + 1,
                  AppendEach(a, (IF line_num > 0 THEN <<COMMA>> ELSE <<>>)
                                \o <<Chomp(GetLine(rest).line)>>, 1))

\* read_pool_status taking a file that cannot be opened for an empty one.
read_pool_status_Unchecked(fs) ==
    [result |-> strdup(Str(<<"[", "]">>)),
     ops |-> <<Op("fopen", "pool", <<>>, fs.poolOK)>>,
     overflow |-> FALSE, actual |-> NULL]

\* [result, ops, overflow, actual]
read_pool_status(fs) ==
    IF ~fs.poolOK
    THEN [result |-> strdup(MSG_POOL_OPEN),
          ops |-> <<Op("fopen", "pool", <<>>, FALSE)>>,
          overflow |-> FALSE, actual |-> NULL]
    ELSE Built(AppendTo(PoolLoop(fs.pool, 0,
                                 AppendTo([rc |-> 0, b |-> NewBuffer(POOL_BUFFER_SIZE)],
                                          Str(<<"[">>))),
                        Str(<<"]">>)),
               <<Op("fopen", "pool", <<>>, TRUE), Op("fclose", "pool", <<>>, TRUE)>>)

\* ------------------------------------------------------------------------
\* handle_request
\* ------------------------------------------------------------------------

\* The else-if chain with the prefix test ahead of the exact users paths.
Route_PrefixFirst(url) ==
    IF strcmp0(url, URL_STATUS) \/ strcmp0(url, URL_STATUS_SLASH) THEN "status"
    ELSE IF strcmp0(url, URL_POOL) \/ strcmp0(url, URL_POOL_SLASH) THEN "pool"
    ELSE IF strncmp0(url, URL_USERS_SLASH, USERS_PREFIX_LEN) THEN "user"
    ELSE IF strcmp0(url, URL_USERS) \/ strcmp0(url, URL_USERS_SLASH) THEN "users"
    ELSE IF strcmp0(url, URL_ROOT) THEN "root"
    ELSE "unknown"

\* The branch handle_request takes for a GET of url, in the order of its
\* else-if chain.
Route(url) ==
    IF strcmp0(url, URL_STATUS) \/ strcmp0(url, URL_STATUS_SLASH) THEN "status"
    ELSE IF strcmp0(url, URL_POOL) \/ strcmp0(url, URL_POOL_SLASH) THEN "pool"
    ELSE IF strcmp0(url, URL_USERS) \/ strcmp0(url, URL_USERS_SLASH) THEN "users"
    ELSE IF strncmp0(url, URL_USERS_SLASH, USERS_PREFIX_LEN) THEN "user"
    ELSE IF strcmp0(url, URL_ROOT) THEN "root"
    ELSE "unknown"

\* The length test of the address, with <= for <.
AddressOK_Inclusive(address) == BLen(address) > 0 /\ BLen(address) <= ADDRESS_LIMIT

\* strlen(address) > 0 && strlen(address) < 100
AddressOK(address) == BLen(address) > 0 /\ BLen(address) < ADDRESS_LIMIT

\* malloc(256) and snprintf of the 404 text
NotFoundPage(url) ==
    MallocPrintf(MSG_BUFFER_SIZE, Cat(Cat(FMT_NOT_FOUND, url), FMT_CLOSE))

StatusPage(now) ==
    MallocPrintf(MSG_BUFFER_SIZE, Cat(Cat(FMT_STATUS_A, Dec(now)), FMT_STATUS_B))

\* The headers without the second MHD_add_response_header.
Headers_ContentTypeOnly == {<<"Content-Type", "application/json">>}

Headers ==
    {<<"Content-Type", "application/json">>, <<"Access-Control-Allow-Origin", "*">>}

\* What a branch leaves: page_content (with the record of the aggregator
\* that built it), the status code and the aggregator operation called.
Page(r, status, call) == [r |-> r, status_code |-> status, call |-> call]

\* A page built without an aggregator.
Own(block) == [result |-> block, ops |-> <<>>, overflow |-> FALSE, actual |-> NULL]

\* The else-if chain with the method tested only where no route matched.
Branch_MethodLast(fs, method, url, now, race, route) ==
    IF route = "status"
    THEN Page(Own(StatusPage(now)), MHD_HTTP_OK, "none")
    ELSE IF route = "pool"
    THEN Page(read_pool_status(fs), MHD_HTTP_OK, "read_pool_status")
    ELSE IF route = "users"
    THEN Page(read_user_stats(fs, race), MHD_HTTP_OK, "read_user_stats")
    ELSE IF route = "root"
    THEN Page(Own(strdup(MSG_ROOT)), MHD_HTTP_OK, "none")
    ELSE IF method # "GET"
    THEN Page(Own(strdup(MSG_METHOD)), MHD_HTTP_METHOD_NOT_ALLOWED, "none")
    ELSE Page(Own(NotFoundPage(url)), MHD_HTTP_NOT_FOUND, "none")

\* The method test and the else-if chain of handle_request, route being
\* the branch the url selects.
Branch(fs, method, url, now, race, route) ==
    IF method # "GET"
    THEN Page(Own(strdup(MSG_METHOD)), MHD_HTTP_METHOD_NOT_ALLOWED, "none")
    ELSE IF route = "status"
    THEN Page(Own(StatusPage(now)), MHD_HTTP_OK, "none")
    ELSE IF route = "pool"
    THEN Page(read_pool_status(fs), MHD_HTTP_OK, "read_pool_status")
    ELSE IF route = "users"
    THEN Page(read_user_stats(fs, race), MHD_HTTP_OK, "read_user_stats")
    ELSE IF route = "user"
    THEN IF AddressOK(Drop(url, USERS_PREFIX_LEN))
         THEN Page(read_single_user_stats(fs, Drop(url, USERS_PREFIX_LEN), race),
                   MHD_HTTP_OK, "read_single_user_stats")
         ELSE Page(Own(strdup(MSG_INVALID_ADDRESS)), MHD_HTTP_BAD_REQUEST, "none")
    ELSE IF route = "root"
    THEN Page(Own(strdup(MSG_ROOT)), MHD_HTTP_OK, "none")
    ELSE Page(Own(NotFoundPage(url)), MHD_HTTP_NOT_FOUND, "none")

\* The end of handle_request: the response of strlen(page_content) bytes
\* with the two headers is queued with the status code.  With it, the
\* record of the request and of what the handler did.
Queue(p, method, url, now, race) ==
    [method |-> method, url |-> url, now |-> now, race |-> race,
     status |-> p.status_code, body |-> CStr(p.r.result), headers |-> Headers,
     call |-> p.call, ops |-> p.r.ops, overflow |-> p.r.overflow,
     actual |-> p.r.actual]

handle_request(fs, method, url, now, race) ==
    Queue(Branch(fs, method, url, now, race, Route(url)), method, url, now, race)

\* ------------------------------------------------------------------------
\* State
\* ------------------------------------------------------------------------

VARIABLES
    buf,      \* the buffer of a response build, append by append
    hist,     \* the byte strings handed to safe_append so far, in call order
    rcs,      \* the value each of those calls returned
    fs,       \* the files under the stats root
    phase,    \* "idle", or "responded" once a response is queued
    resp,     \* the request handled last and the response queued for it
    nwrites,  \* how often the pool engine has written since the start
    http_daemon, \* the global http_daemon: NO_DAEMON or the daemon it points to
    api_mutex,   \* the global api_mutex: "free" or the thread holding it
    daemons,     \* every daemon MHD_start_daemon has made, in order
    thr,         \* where each thread calling init or stop is in its call
    calls,       \* the init and stop calls that have returned, in order
    log_dir_path, \* the global log_dir_path, the bytes before its terminator
    trace,       \* the blocks and handles one handle_request call took and gave up
    conn,        \* where each connection thread is in handle_request
    bufs         \* the build (result, buffer_size, used) of each connection

vars == <<buf, hist, rcs, fs, phase, resp, nwrites,
          http_daemon, api_mutex, daemons, thr, calls, log_dir_path, trace, conn, bufs>>

\* The variables of one request at a time and of single builds.
serverVars == <<buf, hist, rcs, phase, resp, nwrites>>

\* The variables of api_server_init, api_server_stop and
\* api_server_set_log_dir, and the trace of a call followed block by block.
lifeVars == <<http_daemon, api_mutex, daemons, thr, calls, log_dir_path, trace>>

\* The variables of the connection threads.
connVars == <<conn, bufs>>

\* ------------------------------------------------------------------------
\* Bounds and the inputs drawn
\* ------------------------------------------------------------------------

\* safe_append calls on one buffer
MaxAppends == 3
\* entries of the large users directory
NBig == 160
\* writes of the pool engine in one run
MaxWrites == 1
\* a directory this long gets no new file
MaxEntries == 6

N_abc123 == Str(<<"a", "b", "c", "1", "2", "3">>)
N_xyz == Str(<<"x", "y", "z">>)
N_XYZ == Str(<<"X", "Y", "Z">>)
N_a == Str(<<"a">>)
N_b == Str(<<"b">>)
N_hidden == Str(<<".", "h", "i", "d", "d", "e", "n">>)

\* {"hashrate":5}
C_hash ==
    Str(<<"{", "\"", "h", "a", "s", "h", "r", "a", "t", "e", "\"", ":", "5", "}">>)
\* a JSON string of k bytes
C_text(ch, k) == Cat(Cat(QUOTE, Rep(ch, k - 2)), QUOTE)
C_1k == C_text("k", 1024)
C_64k == C_text("m", MAX_USER_FILE_SIZE)
C_64k1 == C_text("o", MAX_USER_FILE_SIZE + 1)
C_70k == C_text("v", 70 * 1024)

File(name, content) == [name |-> name, content |-> content]
DotDir == File(DOT, <<>>)
DotDotDir == File(DOTDOT, <<>>)

\* NBig files of 64 KiB each: more than one response holds.
BigDir ==
    <<DotDir, DotDotDir>>
    \o [i \in 1..NBig |-> File(Cat(Str(<<"u">>), Dec(i)), C_64k)]

UsersDirs ==
    { <<DotDir, DotDotDir>>,
      <<DotDir, DotDotDir, File(N_abc123, C_hash)>>,
      <<DotDir, DotDotDir, File(N_a, C_1k), File(N_b, C_70k), File(N_hidden, C_hash)>>,
      <<DotDir, DotDotDir, File(N_XYZ, C_1k), File(N_xyz, C_hash)>>,
      <<File(N_b, C_64k1), DotDotDir, File(N_xyz, C_64k), DotDir, File(N_abc123, <<>>)>>,
      BigDir }

LF == Rep("LF", 1)
L_1 == Str(<<"{", "\"", "r", "\"", ":", "1", "}">>)
L_2 == Str(<<"{", "\"", "r", "\"", ":", "2", "}">>)
L_3 == Str(<<"{", "\"", "r", "\"", ":", "3", "}">>)
L_4 == Str(<<"{", "\"", "r", "\"", ":", "4", "}">>)

PoolFiles ==
    { <<>>,
      L_1,
      Cat(Cat(Cat(L_1, LF), Cat(L_2, LF)), Cat(L_3, LF)),
      Cat(Cat(Cat(L_1, LF), Cat(L_2, LF)), Cat(Cat(L_3, LF), Cat(L_4, LF))),
      Cat(Cat(L_1, LF), Cat(C_text("p", MAX_RESPONSE_SIZE), LF)),
      Cat(Cat(L_1, LF), Cat(LF, L_2)),
      Cat(Cat(Cat(L_1, LF), Cat(L_2, LF)),
          Cat(Cat(L_3, LF), Cat(C_text("p", MAX_RESPONSE_SIZE), LF))) }

\* The file systems a run starts from.
FileSystems ==
    { [usersOK |-> FALSE, users |-> <<>>, poolOK |-> FALSE, pool |-> <<>>] }
    \cup { [usersOK |-> TRUE, users |-> d, poolOK |-> TRUE, pool |-> <<>>] :
             d \in UsersDirs }
    \cup { [usersOK |-> TRUE, users |-> <<DotDir, DotDotDir>>, poolOK |-> TRUE, pool |-> p] :
             p \in PoolFiles }

Methods == {"GET", "POST"}

Times == {0, 1767225600}

Z(k) == Cat(URL_ROOT, Rep("z", k))
UserUrl(address) == Cat(URL_USERS_SLASH, address)

\* The addresses asked for.
Addresses ==
    { N_abc123, Str(<<"A", "b", "C", "1", "2", "3">>), N_xyz, N_XYZ,
      Str(<<"X", "y", "z">>), N_a, N_b, N_hidden, DOT, DOTDOT,
      Str(<<"n", "o", "b", "o", "d", "y">>),
      Str(<<"{", "a", "d", "d", "r", "e", "s", "s", "}">>),
      Rep("q", ADDRESS_LIMIT - 1), Rep("q", ADDRESS_LIMIT), URL_ROOT,
      Cat(Cat(DOTDOT, URL_ROOT), N_xyz), Cat(N_xyz, URL_ROOT) }

\* The paths asked for.
Urls ==
    { URL_ROOT, URL_STATUS, URL_STATUS_SLASH, URL_POOL, URL_POOL_SLASH,
      URL_USERS, URL_USERS_SLASH, <<>>,
      Cat(URL_STATUS_SLASH, URL_ROOT), Cat(URL_ROOT, URL_ROOT),
      Str(<<"/", "n", "o", "p", "e">>), Str(<<"/", "a", "p", "i">>),
      Str(<<"/", "A", "P", "I", "/", "P", "O", "O", "L">>),
      Z(222), Z(223), Z(300) }
    \cup { UserUrl(a) : a \in Addresses }

\* The files the pool engine touches during a request, and what it writes.
RaceNames == {N_xyz, N_a}

Races(f) ==
    {NoRace}
    \cup { [at |-> at, name |-> n, new |-> <<>>] :
             at \in {"stat", "open"},
             n \in {m \in RaceNames : \E i \in 1..Len(f.users) : f.users[i].name = m} }
    \cup { [at |-> "read", name |-> n, new |-> c] :
             n \in {m \in RaceNames : \E i \in 1..Len(f.users) : f.users[i].name = m},
             c \in {C_70k, Str(<<"{", "}">>)} }

\* The files the pool engine writes between requests.
WriteNames == {N_xyz, N_b}
WriteContents == {C_hash, C_64k1}

NoResponse ==
    [method |-> "", url |-> <<>>, now |-> 0, race |-> NoRace, status |-> 0,
     body |-> <<>>, headers |-> {}, call |-> "none", ops |-> <<>>,
     overflow |-> FALSE, actual |-> NULL]

\* ------------------------------------------------------------------------
\* The buffer, append by append
\* ------------------------------------------------------------------------

\* The strings appended: a bracket, the empty string, strings that fill the
\* 4 KiB preset to the byte, a full-size record, and strings that reach the
\* 10 MiB limit to the byte.
\* ------------------------------------------------------------------------
\* The daemon handle, the mutex, the threads
\* ------------------------------------------------------------------------

\* static struct MHD_Daemon *http_daemon = NULL
NO_DAEMON == 0

\* init and stop calls in one run
MaxCalls == 4

\* The threads that call api_server_init and api_server_stop.
Threads == {"t1", "t2"}

\* The ports asked for.
Ports == {8080, 8081}

\* static char log_dir_path[512] = "/data/ckpool/log"
LOG_DIR_SIZE == 512
DEFAULT_LOG_DIR ==
    Str(<<"/", "d", "a", "t", "a", "/", "c", "k", "p", "o", "o", "l", "/", "l", "o", "g">>)

\* The arguments api_server_set_log_dir is called with: NULL, a short
\* path, and one longer than the array.
LogDirs ==
    {NULL, Ptr(Str(<<"/", "t", "m", "p">>)), Ptr(Cat(Str(<<"/">>), Rep("d", 600)))}

\* No handle_request call followed yet.
NoTrace == [method |-> "", url |-> <<>>, ev |-> <<>>, ret |-> "none"]

\* A thread outside api_server_init and api_server_stop.
IdleThread ==
    [pc |-> "idle", op |-> "none", port |-> 0, before |-> <<>>,
     ret |-> 0, why |-> "none", started |-> NO_DAEMON]

\* What MHD_start_daemon makes: a daemon listening on `port`.
Daemon(port) == [port |-> port, listening |-> TRUE, stops |-> 0]

\* The globals before the first api_server_init.
NotStarted ==
    /\ http_daemon = NO_DAEMON
    /\ api_mutex = "free"
    /\ daemons = <<>>
    /\ thr = [t \in Threads |-> IdleThread]
    /\ calls = <<>>
    /\ log_dir_path = DEFAULT_LOG_DIR
    /\ trace = NoTrace

\* The globals after api_server_init(8080) has returned 0.
Started ==
    /\ http_daemon = 1
    /\ api_mutex = "free"
    /\ daemons = <<Daemon(8080)>>
    /\ thr = [t \in Threads |-> IdleThread]
    /\ calls = <<>>
    /\ log_dir_path = DEFAULT_LOG_DIR
    /\ trace = NoTrace

\* The connection threads of the daemon (MHD_USE_THREAD_PER_CONNECTION).
Connections == {1, 2}

\* A connection thread outside handle_request: where it is, its request,
\* the locals i (the entry readdir gives next), first and the calls made,
\* and the response it queued.
IdleConnection ==
    [pc |-> "idle", method |-> "", url |-> <<>>, i |-> 0, first |-> TRUE,
     ops |-> <<>>, resp |-> NoResponse]

\* No build: result is not allocated.
NoBuild == [rc |-> 0, b |-> [mem |-> <<>>, size |-> 0, used |-> 0]]

NoConnections ==
    /\ conn = [c \in Connections |-> IdleConnection]
    /\ bufs = [c \in Connections |-> NoBuild]

AppendStrs ==
    { Str(<<"[">>), <<>>, Rep("x", POOL_BUFFER_SIZE - 1), Rep("y", MAX_USER_FILE_SIZE),
      Rep("z", MAX_RESPONSE_SIZE - MAX_USER_FILE_SIZE - 1),
      Rep("w", MAX_RESPONSE_SIZE - 1), Rep("v", MAX_RESPONSE_SIZE) }

InitBuf ==
    /\ buf \in {NewBuffer(POOL_BUFFER_SIZE), NewBuffer(INITIAL_BUFFER_SIZE)}
    /\ hist = <<>>
    /\ rcs = <<>>
    /\ fs = [usersOK |-> FALSE, users |-> <<>>, poolOK |-> FALSE, pool |-> <<>>]
    /\ phase = "idle"
    /\ resp = NoResponse
    /\ nwrites = 0
    /\ NotStarted
    /\ NoConnections

\* One call of safe_append on the buffer.
AppendCall(str) ==
    /\ Len(hist) < MaxAppends
    /\ \E r \in {safe_append(buf, str, BLen(str), TRUE)} :
          /\ buf' = r.b
          /\ hist' = Append(hist, str)
          /\ rcs' = Append(rcs, r.rc)
    /\ UNCHANGED <<fs, phase, resp, nwrites>>
    /\ UNCHANGED <<lifeVars, connVars>>

NextBuf == \E str \in AppendStrs : AppendCall(str)

SpecBuf == InitBuf /\ [][NextBuf]_vars

\* ------------------------------------------------------------------------
\* The server, request by request
\* ------------------------------------------------------------------------

Init ==
    /\ buf = NewBuffer(POOL_BUFFER_SIZE)
    /\ hist = <<>>
    /\ rcs = <<>>
    /\ fs \in FileSystems
    /\ phase = "idle"
    /\ resp = NoResponse
    /\ nwrites = 0
    /\ Started
    /\ NoConnections

\* The daemon calls handle_request for a request; the pool engine may
\* touch one user file meanwhile when the handler reads the users
\* directory.
Request(method, url, now, race) ==
    /\ phase = "idle"
    /\ race # NoRace => method = "GET" /\ Route(url) \in {"users", "user"}
    /\ now # 0 => method = "GET" /\ Route(url) = "status"
    /\ resp' = handle_request(fs, method, url, now, race)
    /\ phase' = "responded"
    /\ UNCHANGED <<buf, hist, rcs, fs, nwrites>>
    /\ UNCHANGED <<lifeVars, connVars>>

\* The transport sends the queued response and frees its body.
Transmit ==
    /\ phase = "responded"
    /\ phase' = "idle"
    /\ resp' = NoResponse
    /\ UNCHANGED <<buf, hist, rcs, fs, nwrites>>
    /\ UNCHANGED <<lifeVars, connVars>>

HasFile(f, name) == \E i \in 1..Len(f.users) : f.users[i].name = name

\* The pool engine writes a user's file: in place when it is there, as a
\* new last entry otherwise.
WriteUserFile(name, content) ==
    /\ phase = "idle"
    /\ nwrites < MaxWrites
    /\ fs.usersOK
    /\ HasFile(fs, name) \/ Len(fs.users) < MaxEntries
    /\ fs' = [fs EXCEPT !.users =
                IF HasFile(fs, name)
                THEN [i \in 1..Len(fs.users) |->
                        IF fs.users[i].name = name THEN File(name, content)
                        ELSE fs.users[i]]
                ELSE Append(fs.users, File(name, content))]
    /\ nwrites' = nwrites + 1
    /\ UNCHANGED <<buf, hist, rcs, phase, resp>>
    /\ UNCHANGED <<lifeVars, connVars>>

\* A user's file is removed.
RemoveUserFile(name) ==
    /\ phase = "idle"
    /\ nwrites < MaxWrites
    /\ fs.usersOK
    /\ HasFile(fs, name)
    /\ LET j == CHOOSE i \in 1..Len(fs.users) : fs.users[i].name = name
       IN  fs' = [fs EXCEPT !.users =
                    SubSeq(fs.users, 1, j - 1) \o SubSeq(fs.users, j + 1, Len(fs.users))]
    /\ nwrites' = nwrites + 1
    /\ UNCHANGED <<buf, hist, rcs, phase, resp>>
    /\ UNCHANGED <<lifeVars, connVars>>

\* The pool engine rewrites pool.status.
WritePoolStatus(content) ==
    /\ phase = "idle"
    /\ nwrites < MaxWrites
    /\ fs.poolOK
    /\ fs.pool # content
    /\ fs' = [fs EXCEPT !.pool = content]
    /\ nwrites' = nwrites + 1
    /\ UNCHANGED <<buf, hist, rcs, phase, resp>>
    /\ UNCHANGED <<lifeVars, connVars>>

Next ==
    \/ \E method \in Methods, url \in Urls, now \in Times, race \in Races(fs) :
          Request(method, url, now, race)
    \/ Transmit
    \/ \E name \in WriteNames, content \in WriteContents : WriteUserFile(name, content)
    \/ \E name \in WriteNames : RemoveUserFile(name)
    \/ \E content \in {<<>>, Cat(L_4, LF)} : WritePoolStatus(content)

Spec == Init /\ [][Next]_vars

\* ------------------------------------------------------------------------
\* api_server_init and api_server_stop, statement by statement
\* ------------------------------------------------------------------------

\* The globals a call can change.
Globals == [http_daemon |-> http_daemon, daemons |-> daemons]

\* The calls that have been made: returned or under way.
CallsMade == Len(calls) + Cardinality({t \in Threads : thr[t].pc # "idle"})

\* A lock that lets every caller in.
CanLock_Always(t) == TRUE

\* pthread_mutex_lock(&api_mutex) returns for t only when no thread holds
\* the mutex.
CanLock(t) == api_mutex = "free"

\* MHD_stop_daemon(d): the daemon stops listening.
MHD_stop_daemon(ds, d) ==
    [ds EXCEPT ![d] = [@ EXCEPT !.listening = FALSE, !.stops = @ + 1]]

\* The body of `if (http_daemon)` in api_server_stop without the
\* assignment of NULL.
StopBody_KeepHandle(hd, ds) ==
    [http_daemon |-> hd, daemons |-> MHD_stop_daemon(ds, hd)]

\* MHD_stop_daemon(http_daemon); http_daemon = NULL;
StopBody(hd, ds) ==
    [http_daemon |-> NO_DAEMON, daemons |-> MHD_stop_daemon(ds, hd)]

\* A thread calls api_server_init(port).
CallInit(t, port) ==
    /\ thr[t].pc = "idle"
    /\ CallsMade < MaxCalls
    /\ thr' = [thr EXCEPT ![t] = [IdleThread EXCEPT !.pc = "lock", !.op = "init",
                                                    !.port = port]]
    /\ UNCHANGED <<http_daemon, api_mutex, daemons, calls>>
    /\ UNCHANGED <<serverVars, fs, connVars, log_dir_path, trace>>

\* A thread calls api_server_stop().
CallStop(t) ==
    /\ thr[t].pc = "idle"
    /\ CallsMade < MaxCalls
    /\ thr' = [thr EXCEPT ![t] = [IdleThread EXCEPT !.pc = "lock", !.op = "stop"]]
    /\ UNCHANGED <<http_daemon, api_mutex, daemons, calls>>
    /\ UNCHANGED <<serverVars, fs, connVars, log_dir_path, trace>>

\* pthread_mutex_lock(&api_mutex), the first statement of both functions.
Lock(t) ==
    /\ thr[t].pc = "lock"
    /\ CanLock(t)
    /\ api_mutex' = t
    /\ thr' = [thr EXCEPT ![t].pc = "check", ![t].before = Globals]
    /\ UNCHANGED <<http_daemon, daemons, calls>>
    /\ UNCHANGED <<serverVars, fs, connVars, log_dir_path, trace>>

\* The already-running branch returning -1 with the mutex still held.
InitCheck_NoUnlock(t) ==
    /\ thr[t].pc = "check"
    /\ thr[t].op = "init"
    /\ thr' = IF http_daemon # NO_DAEMON
              THEN [thr EXCEPT ![t] = IdleThread]
              ELSE [thr EXCEPT ![t].pc = "start"]
    /\ calls' = IF http_daemon # NO_DAEMON
                THEN Append(calls, [op |-> "init", thread |-> t, port |-> thr[t].port,
                                    before |-> thr[t].before, after |-> Globals,
                                    ret |-> -1, why |-> "already",
                                    started |-> NO_DAEMON])
                ELSE calls
    /\ UNCHANGED <<http_daemon, api_mutex, daemons>>
    /\ UNCHANGED <<serverVars, fs, connVars, log_dir_path, trace>>

\* if (http_daemon) { ... already running ...; return -1; }
InitCheck(t) ==
    /\ thr[t].pc = "check"
    /\ thr[t].op = "init"
    /\ thr' = IF http_daemon # NO_DAEMON
              THEN [thr EXCEPT ![t].pc = "unlock", ![t].ret = -1, ![t].why = "already"]
              ELSE [thr EXCEPT ![t].pc = "start"]
    /\ UNCHANGED <<http_daemon, api_mutex, daemons, calls>>
    /\ UNCHANGED <<serverVars, fs, connVars, log_dir_path, trace>>

\* http_daemon = MHD_start_daemon(..., port, ...); if (!http_daemon) return
\* -1; ... return 0.  The start can fail, and fails when the port is taken.
InitStart(t, ok) ==
    /\ thr[t].pc = "start"
    /\ ok => \A d \in 1..Len(daemons) :
                daemons[d].listening => daemons[d].port # thr[t].port
    /\ http_daemon' = IF ok THEN Len(daemons) + 1 ELSE NO_DAEMON
    /\ daemons' = IF ok THEN Append(daemons, Daemon(thr[t].port)) ELSE daemons
    /\ thr' = IF ok
              THEN [thr EXCEPT ![t].pc = "unlock", ![t].ret = 0, ![t].why = "started",
                               ![t].started = Len(daemons) + 1]
              ELSE [thr EXCEPT ![t].pc = "unlock", ![t].ret = -1, ![t].why = "failed"]
    /\ UNCHANGED <<api_mutex, calls>>
    /\ UNCHANGED <<serverVars, fs, connVars, log_dir_path, trace>>

\* if (http_daemon) in api_server_stop.
StopCheck(t) ==
    /\ thr[t].pc = "check"
    /\ thr[t].op = "stop"
    /\ thr' = IF http_daemon # NO_DAEMON
              THEN [thr EXCEPT ![t].pc = "stop"]
              ELSE [thr EXCEPT ![t].pc = "unlock"]
    /\ UNCHANGED <<http_daemon, api_mutex, daemons, calls>>
    /\ UNCHANGED <<serverVars, fs, connVars, log_dir_path, trace>>

\* MHD_stop_daemon(http_daemon); http_daemon = NULL; printf(...)
StopDaemon(t) ==
    /\ thr[t].pc = "stop"
    /\ http_daemon' = StopBody(http_daemon, daemons).http_daemon
    /\ daemons' = StopBody(http_daemon, daemons).daemons
    /\ thr' = [thr EXCEPT ![t].pc = "unlock"]
    /\ UNCHANGED <<api_mutex, calls>>
    /\ UNCHANGED <<serverVars, fs, connVars, log_dir_path, trace>>

\* pthread_mutex_unlock(&api_mutex); return.
Unlock(t) ==
    /\ thr[t].pc = "unlock"
    /\ api_mutex' = "free"
    /\ calls' = Append(calls, [op |-> thr[t].op, thread |-> t, port |-> thr[t].port,
                               before |-> thr[t].before, after |-> Globals,
                               ret |-> thr[t].ret, why |-> thr[t].why,
                               started |-> thr[t].started])
    /\ thr' = [thr EXCEPT ![t] = IdleThread]
    /\ UNCHANGED <<http_daemon, daemons>>
    /\ UNCHANGED <<serverVars, fs, connVars, log_dir_path, trace>>

\* api_server_set_log_dir(log_dir), called by any thread at any time:
\* if (log_dir) snprintf(log_dir_path, sizeof(log_dir_path), "%s", log_dir);
SetLogDir(log_dir) ==
    /\ log_dir_path' = IF log_dir.null THEN log_dir_path
                       ELSE snprintf(LOG_DIR_SIZE, log_dir.s)
    /\ UNCHANGED <<http_daemon, api_mutex, daemons, thr, calls, trace>>
    /\ UNCHANGED <<serverVars, fs, connVars>>

InitLife ==
    /\ buf = NewBuffer(POOL_BUFFER_SIZE)
    /\ hist = <<>>
    /\ rcs = <<>>
    /\ fs = [usersOK |-> FALSE, users |-> <<>>, poolOK |-> FALSE, pool |-> <<>>]
    /\ phase = "idle"
    /\ resp = NoResponse
    /\ nwrites = 0
    /\ NotStarted
    /\ NoConnections

NextLife ==
    \/ \E t \in Threads, port \in Ports : CallInit(t, port)
    \/ \E t \in Threads : CallStop(t)
    \/ \E t \in Threads : Lock(t)
    \/ \E t \in Threads : InitCheck(t)
    \/ \E t \in Threads, ok \in BOOLEAN : InitStart(t, ok)
    \/ \E t \in Threads : StopCheck(t)
    \/ \E t \in Threads : StopDaemon(t)
    \/ \E t \in Threads : Unlock(t)
    \/ \E log_dir \in LogDirs : SetLogDir(log_dir)

SpecLife == InitLife /\ [][NextLife]_vars

\* The statements of a call that do not wait: every one after
\* pthread_mutex_lock has returned.
Run(t) ==
    \/ InitCheck(t)
    \/ \E ok \in BOOLEAN : InitStart(t, ok)
    \/ StopCheck(t)
    \/ StopDaemon(t)
    \/ Unlock(t)

\* Fair scheduling: a thread that can run its next statement runs it, and
\* a thread waiting in pthread_mutex_lock gets the mutex if it is free
\* again and again.
FairLife == \A t \in Threads : WF_vars(Run(t)) /\ SF_vars(Lock(t))

\* init and stop calls in one run under fair scheduling
MaxFairCalls == 3

\* The steps of NextLife with at most MaxFairCalls calls.
NextLifeFair ==
    \/ \E t \in Threads, port \in Ports : CallsMade < MaxFairCalls /\ CallInit(t, port)
    \/ \E t \in Threads : CallsMade < MaxFairCalls /\ CallStop(t)
    \/ \E t \in Threads : Lock(t)
    \/ \E t \in Threads : InitCheck(t)
    \/ \E t \in Threads, ok \in BOOLEAN : InitStart(t, ok)
    \/ \E t \in Threads : StopCheck(t)
    \/ \E t \in Threads : StopDaemon(t)
    \/ \E t \in Threads : Unlock(t)
    \/ \E log_dir \in LogDirs : SetLogDir(log_dir)

SpecLifeFair == InitLife /\ [][NextLifeFair]_vars /\ FairLife

\* ------------------------------------------------------------------------
\* Two connection threads in handle_request, loop iteration by iteration
\* ------------------------------------------------------------------------

\* The requests of the connections.
ConnRequests ==
    { <<"GET", URL_USERS>>, <<"GET", URL_POOL>>, <<"GET", UserUrl(N_xyz)>>,
      <<"POST", URL_USERS>> }

\* One buffer for all connections, as a static variable would be.
Slot_Shared(c) == 1

\* result, buffer_size and used are automatic variables of
\* read_user_stats and read_pool_status: each connection thread has its
\* own.
Slot(c) == c

\* The loop state of read_user_stats in connection c.
LoopState(c) == [a |-> bufs[Slot(c)], first |-> conn[c].first, ops |-> conn[c].ops]

\* handle_request enters read_user_stats: opendir, malloc, the opening
\* brace.
AcceptUsers(c, method, url) ==
    /\ conn[c].pc = "idle"
    /\ method = "GET" /\ Route(url) = "users" /\ fs.usersOK
    /\ conn' = [conn EXCEPT ![c] = [IdleConnection EXCEPT
                  !.pc = "users", !.method = method, !.url = url, !.i = 1,
                  !.ops = <<Op("opendir", "users", <<>>, TRUE)>>]]
    /\ bufs' = [bufs EXCEPT ![Slot(c)] =
                  AppendTo([rc |-> 0, b |-> NewBuffer(INITIAL_BUFFER_SIZE)], Str(<<"{">>))]
    /\ UNCHANGED <<serverVars, fs, lifeVars>>

\* One iteration of the readdir loop of read_user_stats.
UsersIter(c) ==
    /\ conn[c].pc = "users"
    /\ conn[c].i <= Len(fs.users)
    /\ bufs[Slot(c)].rc >= 0
    /\ \E st \in {UsersStep(fs, NoRace, conn[c].i, LoopState(c))} :
          /\ bufs' = [bufs EXCEPT ![Slot(c)] = st.a]
          /\ conn' = [conn EXCEPT ![c].i = @ + 1, ![c].first = st.first,
                                  ![c].ops = st.ops]
    /\ UNCHANGED <<serverVars, fs, lifeVars>>

\* read_user_stats returns, after the loop or from a failed safe_append,
\* and handle_request queues the response.
UsersReturn(c) ==
    /\ conn[c].pc = "users"
    /\ conn[c].i > Len(fs.users) \/ bufs[Slot(c)].rc < 0
    /\ conn' = [conn EXCEPT ![c].pc = "done",
                  ![c].resp = Queue(Page(UsersEnd(LoopState(c)), MHD_HTTP_OK,
                                         "read_user_stats"),
                                    conn[c].method, conn[c].url, 0, NoRace)]
    /\ bufs' = [bufs EXCEPT ![Slot(c)] = NoBuild]
    /\ UNCHANGED <<serverVars, fs, lifeVars>>

\* handle_request enters read_pool_status: fopen, malloc, the opening
\* bracket.
AcceptPool(c, method, url) ==
    /\ conn[c].pc = "idle"
    /\ method = "GET" /\ Route(url) = "pool" /\ fs.poolOK
    /\ conn' = [conn EXCEPT ![c] = [IdleConnection EXCEPT
                  !.pc = "pool", !.method = method, !.url = url]]
    /\ bufs' = [bufs EXCEPT ![Slot(c)] =
                  AppendTo([rc |-> 0, b |-> NewBuffer(POOL_BUFFER_SIZE)], Str(<<"[">>))]
    /\ UNCHANGED <<serverVars, fs, lifeVars>>

\* The getline loop of read_pool_status.
PoolLines(c) ==
    /\ conn[c].pc = "pool"
    /\ bufs' = [bufs EXCEPT ![Slot(c)] = PoolLoop(fs.pool, 0, bufs[Slot(c)])]
    /\ conn' = [conn EXCEPT ![c].pc = "pool_end"]
    /\ UNCHANGED <<serverVars, fs, lifeVars>>

\* The closing bracket; read_pool_status returns and handle_request queues
\* the response.
PoolReturn(c) ==
    /\ conn[c].pc = "pool_end"
    /\ conn' = [conn EXCEPT ![c].pc = "done",
                  ![c].resp = Queue(Page(Built(AppendTo(bufs[Slot(c)], Str(<<"]">>)),
                                               <<Op("fopen", "pool", <<>>, TRUE),
                                                 Op("fclose", "pool", <<>>, TRUE)>>),
                                         MHD_HTTP_OK, "read_pool_status"),
                                    conn[c].method, conn[c].url, 0, NoRace)]
    /\ bufs' = [bufs EXCEPT ![Slot(c)] = NoBuild]
    /\ UNCHANGED <<serverVars, fs, lifeVars>>

\* handle_request on a branch that builds nothing in a growable buffer.
AcceptOther(c, method, url) ==
    /\ conn[c].pc = "idle"
    /\ ~(method = "GET" /\ Route(url) = "users" /\ fs.usersOK)
    /\ ~(method = "GET" /\ Route(url) = "pool" /\ fs.poolOK)
    /\ conn' = [conn EXCEPT ![c] = [IdleConnection EXCEPT
                  !.pc = "done", !.method = method, !.url = url,
                  !.resp = handle_request(fs, method, url, 0, NoRace)]]
    /\ UNCHANGED <<serverVars, fs, lifeVars, bufs>>

InitConn ==
    /\ buf = NewBuffer(POOL_BUFFER_SIZE)
    /\ hist = <<>>
    /\ rcs = <<>>
    /\ fs \in FileSystems
    /\ phase = "idle"
    /\ resp = NoResponse
    /\ nwrites = 0
    /\ Started
    /\ NoConnections

NextConn ==
    \/ \E c \in Connections, r \in ConnRequests : AcceptUsers(c, r[1], r[2])
    \/ \E c \in Connections : UsersIter(c)
    \/ \E c \in Connections : UsersReturn(c)
    \/ \E c \in Connections, r \in ConnRequests : AcceptPool(c, r[1], r[2])
    \/ \E c \in Connections : PoolLines(c)
    \/ \E c \in Connections : PoolReturn(c)
    \/ \E c \in Connections, r \in ConnRequests : AcceptOther(c, r[1], r[2])

SpecConn == InitConn /\ [][NextConn]_vars

\* ------------------------------------------------------------------------
\* One handle_request call, block by block and handle by handle
\* ------------------------------------------------------------------------
\* Every call that can fail (fopen, opendir, stat, malloc, strdup,
\* safe_append) fails or not as an input says.  The events are
\* "alloc", "free" and "give" (to MHD_create_response_from_buffer) of a
\* block, "open" and "close" of a handle, "write_null" and "strlen_null"
\* for a write through and a strlen of a null pointer.  A write through
\* NULL, strlen(NULL) and a second fclose have no defined outcome: the call
\* ends there ("crash") or goes on, as the input ub says.

Ev(op, id) == [op |-> op, id |-> id]

\* return strdup("..."): the copy, or NULL when strdup fails.
ReturnCopy(ev, ok) ==
    IF ok THEN [ev |-> Append(ev, Ev("alloc", "page")), ret |-> "page"]
    ELSE [ev |-> ev, ret |-> "NULL"]

\* result = malloc(256); snprintf(result, 256, ...); return result;
ReturnPrintf(ev, ok, ub) ==
    IF ok THEN [ev |-> Append(ev, Ev("alloc", "page")), ret |-> "page"]
    ELSE [ev  |-> Append(ev, Ev("write_null", "page")),
          ret |-> IF ub = "crash" THEN "crash" ELSE "NULL"]

\* What the getline loop of read_pool_status does for lines i.. of ls, each
\* "ok", or failing the append of the comma or of the line.
RECURSIVE PoolLinesTrace(_, _, _)
PoolLinesTrace(ls, i, ev) ==
    IF i > Len(ls) THEN [ev |-> ev, failed |-> FALSE]
    ELSE IF ls[i] = "ok" \/ (ls[i] = "comma_fail" /\ i = 1)
    THEN PoolLinesTrace(ls, i + 1, ev)
    ELSE [ev     |-> ev \o <<Ev("free", "result"), Ev("free", "line"), Ev("close", "fp")>>,
          failed |-> TRUE]

\* The end of read_pool_status, st being what the loop left.
PoolEnd(o, st) ==
    IF st.failed THEN ReturnCopy(st.ev, o.copy)
    ELSE IF ~o.close_append
    THEN ReturnCopy(st.ev \o <<Ev("free", "result")>>
                          \o (IF o.line \/ Len(o.lines) > 0 THEN <<Ev("free", "line")>> ELSE <<>>)
                          \o <<Ev("close", "fp")>>, o.copy)
    ELSE [ev  |-> st.ev \o (IF o.line \/ Len(o.lines) > 0 THEN <<Ev("free", "line")>> ELSE <<>>)
                        \o <<Ev("close", "fp")>>,
          ret |-> "result"]

\* read_pool_status.  getline allocates line at its first call; when that
\* call returns -1 it may have allocated it or not (o.line).
PoolTrace(o) ==
    IF ~o.open THEN ReturnCopy(<<>>, o.copy)
    ELSE IF ~o.malloc THEN ReturnCopy(<<Ev("open", "fp"), Ev("close", "fp")>>, o.copy)
    ELSE IF ~o.open_append
    THEN ReturnCopy(<<Ev("open", "fp"), Ev("alloc", "result"),
                      Ev("free", "result"), Ev("close", "fp")>>, o.copy)
    ELSE PoolEnd(o, PoolLinesTrace(o.lines, 1,
                        <<Ev("open", "fp"), Ev("alloc", "result")>>
                        \o (IF o.line \/ Len(o.lines) > 0 THEN <<Ev("alloc", "line")>>
                            ELSE <<>>)))

\* find_user_file_case_insensitive: the events, and whether it returns a
\* name.
FindTrace(o) ==
    IF ~o.open THEN [ev |-> <<>>, found |-> FALSE]
    ELSE IF ~o.match THEN [ev |-> <<Ev("open", "dir"), Ev("close", "dir")>>, found |-> FALSE]
    ELSE IF ~o.name_malloc
    THEN [ev |-> <<Ev("open", "dir"), Ev("close", "dir")>>, found |-> FALSE]
    ELSE [ev    |-> <<Ev("open", "dir"), Ev("alloc", "actual_filename"), Ev("close", "dir")>>,
          found |-> TRUE]

\* if (!result) { fclose(fp); fclose(fp); return strdup("..."); }
SingleNoMemory(ev, o) ==
    IF o.ub = "crash"
    THEN [ev |-> ev \o <<Ev("close", "fp"), Ev("close", "fp")>>, ret |-> "crash"]
    ELSE ReturnCopy(ev \o <<Ev("close", "fp"), Ev("close", "fp")>>, o.copy)

\* read_single_user_stats once the resolver has returned: f is what
\* FindTrace gave.
SingleTrace(o, f) ==
    IF ~f.found THEN ReturnPrintf(f.ev, o.copy, o.ub)
    ELSE IF ~o.stat \/ o.big \/ ~o.fopen
    THEN ReturnPrintf(f.ev \o <<Ev("free", "actual_filename")>>, o.copy, o.ub)
    ELSE IF ~o.malloc
    THEN SingleNoMemory(f.ev \o <<Ev("free", "actual_filename"), Ev("open", "fp")>>, o)
    ELSE [ev  |-> f.ev \o <<Ev("free", "actual_filename"), Ev("open", "fp"),
                            Ev("alloc", "result"), Ev("close", "fp")>>,
          ret |-> "result"]

\* The body of the readdir loop that does not free user_stats after the
\* appends.
UsersTraceStep_Leak(tag, st) ==
    IF st.failed THEN st
    ELSE IF tag \in {"dot", "stat_fail", "big", "open_fail"} THEN st
    ELSE IF tag = "oom"
    THEN [st EXCEPT !.ev = @ \o <<Ev("open", "fp"), Ev("close", "fp")>>]
    ELSE IF tag = "ok" \/ (tag = "comma_fail" /\ st.first)
    THEN [st EXCEPT !.ev = @ \o <<Ev("open", "fp"), Ev("alloc", "user_stats"),
                                  Ev("close", "fp")>>,
                    !.first = FALSE]
    ELSE [st EXCEPT !.ev = @ \o <<Ev("open", "fp"), Ev("alloc", "user_stats"),
                                  Ev("close", "fp"), Ev("free", "user_stats"),
                                  Ev("free", "result"), Ev("close", "dir")>>,
                    !.failed = TRUE]

\* The body of the readdir loop of read_user_stats for one entry, tag
\* saying what happens to it: a dot name, stat failing, a file over the
\* limit, fopen failing, malloc failing ("oom"), a failing append of the
\* comma, of the key or of the content, or none of these ("ok").
UsersTraceStep(tag, st) ==
    IF st.failed THEN st
    ELSE IF tag \in {"dot", "stat_fail", "big", "open_fail"} THEN st
    ELSE IF tag = "oom"
    THEN [st EXCEPT !.ev = @ \o <<Ev("open", "fp"), Ev("close", "fp")>>]
    ELSE IF tag = "ok" \/ (tag = "comma_fail" /\ st.first)
    THEN [st EXCEPT !.ev = @ \o <<Ev("open", "fp"), Ev("alloc", "user_stats"),
                                  Ev("close", "fp"), Ev("free", "user_stats")>>,
                    !.first = FALSE]
    ELSE [st EXCEPT !.ev = @ \o <<Ev("open", "fp"), Ev("alloc", "user_stats"),
                                  Ev("close", "fp"), Ev("free", "user_stats"),
                                  Ev("free", "result"), Ev("close", "dir")>>,
                    !.failed = TRUE]

RECURSIVE UsersTraceLoop(_, _, _)
UsersTraceLoop(tags, i, st) ==
    IF i > Len(tags) THEN st
    ELSE UsersTraceLoop(tags, i + 1, UsersTraceStep(tags[i], st))

\* The end of read_user_stats, st being what the loop left.
UsersTraceEnd(o, st) ==
    IF st.failed THEN ReturnCopy(st.ev, o.copy)
    ELSE IF ~o.close_append
    THEN ReturnCopy(st.ev \o <<Ev("free", "result"), Ev("close", "dir")>>, o.copy)
    ELSE [ev |-> st.ev \o <<Ev("close", "dir")>>, ret |-> "result"]

\* read_user_stats
UsersTrace(o) ==
    IF ~o.open THEN ReturnCopy(<<>>, o.copy)
    ELSE IF ~o.malloc THEN ReturnCopy(<<Ev("open", "dir"), Ev("close", "dir")>>, o.copy)
    ELSE IF ~o.open_append
    THEN ReturnCopy(<<Ev("open", "dir"), Ev("alloc", "result"),
                      Ev("free", "result"), Ev("close", "dir")>>, o.copy)
    ELSE UsersTraceEnd(o, UsersTraceLoop(o.entries, 1,
                              [ev     |-> <<Ev("open", "dir"), Ev("alloc", "result")>>,
                               first  |-> TRUE,
                               failed |-> FALSE]))

\* The end of handle_request: strlen(page_content) and
\* MHD_create_response_from_buffer(..., page_content, MHD_RESPMEM_MUST_FREE),
\* t being what the branch left in page_content.
HandOver(method, url, t, ub) ==
    [method |-> method, url |-> url,
     ev  |-> IF t.ret = "crash" THEN t.ev
             ELSE IF t.ret = "NULL"
             THEN t.ev \o <<Ev("strlen_null", "page")>>
                       \o (IF ub = "crash" THEN <<>> ELSE <<Ev("give", "NULL")>>)
             ELSE Append(t.ev, Ev("give", t.ret)),
     ret |-> IF t.ret = "crash" \/ (t.ret = "NULL" /\ ub = "crash") THEN "crash"
             ELSE "queued"]

\* The lines and entries one call meets
MaxItems == 2

RECURSIVE SeqsUpTo(_, _)
SeqsUpTo(S, n) ==
    IF n = 0 THEN {<<>>}
    ELSE SeqsUpTo(S, n - 1)
         \cup {Append(q, x) : q \in {r \in SeqsUpTo(S, n - 1) : Len(r) = n - 1}, x \in S}

UndefinedOutcomes == {"crash", "continue"}

PoolOutcomes ==
    [open : BOOLEAN, malloc : BOOLEAN, open_append : BOOLEAN, close_append : BOOLEAN,
     copy : BOOLEAN, line : BOOLEAN,
     lines : SeqsUpTo({"ok", "comma_fail", "line_fail"}, MaxItems)]

UsersOutcomes ==
    [open : BOOLEAN, malloc : BOOLEAN, open_append : BOOLEAN, close_append : BOOLEAN,
     copy : BOOLEAN,
     entries : SeqsUpTo({"dot", "stat_fail", "big", "open_fail", "oom", "ok",
                         "comma_fail", "key_fail", "stats_fail"}, MaxItems)]

SingleOutcomes ==
    [open : BOOLEAN, match : BOOLEAN, name_malloc : BOOLEAN, stat : BOOLEAN,
     big : BOOLEAN, fopen : BOOLEAN, malloc : BOOLEAN, copy : BOOLEAN,
     ub : UndefinedOutcomes]

\* The requests followed: those of the connection threads and one for
\* each other branch of handle_request.
TracedRequests ==
    ConnRequests
    \cup {<<"GET", URL_STATUS>>, <<"GET", URL_STATUS_SLASH>>, <<"GET", URL_ROOT>>,
          <<"GET", URL_POOL_SLASH>>, <<"GET", URL_USERS_SLASH>>,
          <<"GET", UserUrl(N_abc123)>>, <<"GET", UserUrl(DOTDOT)>>,
          <<"GET", Z(4)>>, <<"GET", <<>>>>, <<"POST", URL_ROOT>>,
          <<"GET", UserUrl(Rep("z", ADDRESS_LIMIT))>>}

\* The branch of handle_request each of them takes: the method test, then
\* the else-if chain.
BranchOf ==
    [r \in TracedRequests |->
        IF r[1] # "GET" THEN "method"
        ELSE IF Route(r[2]) = "user" /\ ~AddressOK(Drop(r[2], USERS_PREFIX_LEN))
        THEN "invalid"
        ELSE Route(r[2])]

\* GET /api/pool
HandlePool(method, url, o, ub) ==
    /\ trace.ret \in {"none", "returned"}
    /\ BranchOf[<<method, url>>] = "pool"
    /\ trace' = HandOver(method, url, PoolTrace(o), ub)
    /\ UNCHANGED <<http_daemon, api_mutex, daemons, thr, calls, log_dir_path>>
    /\ UNCHANGED <<serverVars, fs, connVars>>

\* GET /api/users
HandleUsers(method, url, o, ub) ==
    /\ trace.ret \in {"none", "returned"}
    /\ BranchOf[<<method, url>>] = "users"
    /\ trace' = HandOver(method, url, UsersTrace(o), ub)
    /\ UNCHANGED <<http_daemon, api_mutex, daemons, thr, calls, log_dir_path>>
    /\ UNCHANGED <<serverVars, fs, connVars>>

\* GET /api/users/{address}
HandleUser(method, url, o) ==
    /\ trace.ret \in {"none", "returned"}
    /\ BranchOf[<<method, url>>] = "user"
    /\ trace' = HandOver(method, url, SingleTrace(o, FindTrace(o)), o.ub)
    /\ UNCHANGED <<http_daemon, api_mutex, daemons, thr, calls, log_dir_path>>
    /\ UNCHANGED <<serverVars, fs, connVars>>

\* The branches that build page_content themselves: strdup for a method
\* other than GET, an invalid address and "/", malloc(256) and snprintf
\* for /api/status and for an unknown url.
HandleOwn(method, url, ok, ub) ==
    /\ trace.ret \in {"none", "returned"}
    /\ BranchOf[<<method, url>>] \in {"method", "invalid", "root", "status", "unknown"}
    /\ trace' = HandOver(method, url,
                         IF BranchOf[<<method, url>>] \in {"status", "unknown"}
                         THEN ReturnPrintf(<<>>, ok, ub)
                         ELSE ReturnCopy(<<>>, ok),
                         ub)
    /\ UNCHANGED <<http_daemon, api_mutex, daemons, thr, calls, log_dir_path>>
    /\ UNCHANGED <<serverVars, fs, connVars>>

\* handle_request returns after MHD_queue_response and
\* MHD_destroy_response; another call can follow.
HandleReturn ==
    /\ trace.ret = "queued"
    /\ trace' = [NoTrace EXCEPT !.ret = "returned"]
    /\ UNCHANGED <<http_daemon, api_mutex, daemons, thr, calls, log_dir_path>>
    /\ UNCHANGED <<serverVars, fs, connVars>>

InitRes ==
    /\ buf = NewBuffer(POOL_BUFFER_SIZE)
    /\ hist = <<>>
    /\ rcs = <<>>
    /\ fs = [usersOK |-> FALSE, users |-> <<>>, poolOK |-> FALSE, pool |-> <<>>]
    /\ phase = "idle"
    /\ resp = NoResponse
    /\ nwrites = 0
    /\ Started
    /\ NoConnections

NextRes ==
    \/ \E r \in {q \in DOMAIN BranchOf : BranchOf[q] = "pool"},
          o \in PoolOutcomes, ub \in UndefinedOutcomes : HandlePool(r[1], r[2], o, ub)
    \/ \E r \in {q \in DOMAIN BranchOf : BranchOf[q] = "users"},
          o \in UsersOutcomes, ub \in UndefinedOutcomes : HandleUsers(r[1], r[2], o, ub)
    \/ \E r \in {q \in DOMAIN BranchOf : BranchOf[q] = "user"},
          o \in SingleOutcomes : HandleUser(r[1], r[2], o)
    \/ \E r \in DOMAIN BranchOf, ok \in BOOLEAN, ub \in UndefinedOutcomes :
          HandleOwn(r[1], r[2], ok, ub)
    \/ HandleReturn

SpecRes == InitRes /\ [][NextRes]_vars

\* ------------------------------------------------------------------------
\* Claims
\* ------------------------------------------------------------------------

RECURSIVE ConcatFrom(_, _)
ConcatFrom(h, i) == IF i > Len(h) THEN <<>> ELSE Cat(h[i], ConcatFrom(h, i + 1))

\* The appended strings joined in call order.
ConcatAll(h) == ConcatFrom(h, 1)

\* Every call so far returned 0, the block holds the appended strings in
\* call order from its first byte, then one zero byte, and is exactly as
\* long as its recorded size.
BufferHoldsAll ==
    /\ \A i \in 1..Len(rcs) : rcs[i] = 0
    /\ buf.used = BLen(ConcatAll(hist))
    /\ Take(buf.mem, buf.used) = ConcatAll(hist)
    /\ ByteAt(buf.mem, buf.used) = "NUL"
    /\ BLen(buf.mem) = buf.size

\* C1 as stated: appends whose cumulative size stays <= 10 MiB all
\* succeed and the buffer holds their concatenation and a terminator.
C1_AsStated ==
    BLen(ConcatAll(hist)) <= MAX_RESPONSE_SIZE => BufferHoldsAll

\* C1, amended: on a fresh buffer (4 KiB or 128 KiB), appends whose
\* cumulative size plus the terminator byte stays <= 10 MiB all succeed,
\* and the buffer then holds exactly their concatenation in call order
\* followed by one terminator byte.
C1_ConcatWithinLimit ==
    BLen(ConcatAll(hist)) + 1 <= MAX_RESPONSE_SIZE => BufferHoldsAll

\* Several appends that grew the buffer to the limit and filled it to the
\* last byte before the terminator.
C1_Witness ==
    /\ Len(hist) >= 2
    /\ \A i \in 1..Len(hist) : hist[i] # <<>>
    /\ BLen(ConcatAll(hist)) + 1 = MAX_RESPONSE_SIZE
    /\ buf.size = MAX_RESPONSE_SIZE
    /\ BufferHoldsAll

\* ------------------------------------------------------------------------
\* What the responses are compared with
\* ------------------------------------------------------------------------

Responded == phase = "responded"

\* The address of a request on the prefix: the path past "/api/users/".
AddressOf(url) == Drop(url, 11)

HasPrefix(url) == Take(url, 11) = URL_USERS_SLASH

\* a, a comma, b; an empty side adds nothing.
Join(a, b) ==
    IF a = <<>> THEN b ELSE IF b = <<>> THEN a ELSE Cat(Cat(a, COMMA), b)

\* Entry i of the users directory is one read_user_stats takes in: its
\* name does not start with a dot, its size is at most 64 KiB, and it is
\* not removed under the handler.
Included(f, race, i) ==
    /\ ByteAt(f.users[i].name, 0) # "."
    /\ BLen(f.users[i].content) <= 65536
    /\ ~(race.at \in {"stat", "open"} /\ race.name = f.users[i].name)

\* "<name>":<content> for entry i, the content being what is read of it.
KeyValue(f, race, i) ==
    Cat(Cat(Cat(QUOTE, f.users[i].name), QUOTE_COLON),
        IF race.at = "read" /\ race.name = f.users[i].name
        THEN Take(race.new, BLen(f.users[i].content))
        ELSE f.users[i].content)

\* The included entries among lo..hi, in enumeration order, joined by
\* single commas.
RECURSIVE JoinRange(_, _, _, _)
JoinRange(f, race, lo, hi) ==
    IF lo > hi THEN <<>>
    ELSE IF lo = hi
    THEN IF Included(f, race, lo) THEN KeyValue(f, race, lo) ELSE <<>>
    ELSE Join(JoinRange(f, race, lo, (lo + hi) \div 2),
              JoinRange(f, race, ((lo + hi) \div 2) + 1, hi))

\* The whole object over the users directory.
WholeObject(f, race) ==
    Cat(Cat(Str(<<"{">>), JoinRange(f, race, 1, Len(f.users))), Str(<<"}">>))

\* The first k lines of the status file, each without its line feed, with
\* a comma before every line but the first.
RECURSIVE JoinLines(_, _, _)
JoinLines(rest, k, n) ==
    IF rest = <<>> \/ k = n THEN <<>>
    ELSE Cat(Cat(IF k > 0 THEN COMMA ELSE <<>>, Chomp(GetLine(rest).line)),
             JoinLines(GetLine(rest).rest, k + 1, n))

\* The whole array over the status file.
WholeArray(f) == Cat(Cat(Str(<<"[">>), JoinLines(f.pool, 0, 3)), Str(<<"]">>))

\* The whole body an aggregate response is to carry.
WholeBody(r) ==
    IF r.call = "read_pool_status" THEN WholeArray(fs) ELSE WholeObject(fs, r.race)

\* The entries a query matches: not "." or "..", and the same name
\* ignoring case.
MatchSet(f, address) ==
    {i \in 1..Len(f.users) :
        /\ f.users[i].name # DOT
        /\ f.users[i].name # DOTDOT
        /\ Lower(f.users[i].name) = Lower(address)}

\* The first of them in enumeration order, 0 when there is none or the
\* directory cannot be opened.
FirstMatch(f, address) ==
    IF ~f.usersOK \/ MatchSet(f, address) = {} THEN 0
    ELSE CHOOSE i \in MatchSet(f, address) : \A j \in MatchSet(f, address) : i <= j

\* The rules of the routing table, each by the paths it matches.
RuleMatches(rule, url) ==
    CASE rule = "root"   -> url = URL_ROOT
      [] rule = "status" -> url \in {URL_STATUS, URL_STATUS_SLASH}
      [] rule = "pool"   -> url \in {URL_POOL, URL_POOL_SLASH}
      [] rule = "users"  -> url \in {URL_USERS, URL_USERS_SLASH}
      [] rule = "user"   -> HasPrefix(url)

Rules == {"root", "status", "pool", "users", "user"}

\* The rules a path matches.
Matching(url) == {rule \in Rules : RuleMatches(rule, url)}

\* First match, over the rules in the order given, for a path that matches
\* the rules in `matching`.
RECURSIVE FirstRule(_, _, _)
FirstRule(order, i, matching) ==
    IF i > Len(order) THEN "unknown"
    ELSE IF order[i] \in matching THEN order[i]
    ELSE FirstRule(order, i + 1, matching)

\* The order of the rules in the routing table of the specification.
SpecOrder == <<"root", "status", "pool", "users", "user">>

\* Every order the five tests can be made in.
Orders == {[i \in 1..5 |-> p[SpecOrder[i]]] : p \in Permutations(Rules)}

\* Position of a rule in an order.
PosOf(o, rule) == CHOOSE i \in 1..5 : o[i] = rule

\* The orders that test the exact users paths before the prefix.
ExactFirstOrders == {o \in Orders : PosOf(o, "users") < PosOf(o, "user")}

\* The branch a response shows to have been taken.
Served(r) ==
    IF r.call = "read_pool_status" THEN "pool"
    ELSE IF r.call = "read_user_stats" THEN "users"
    ELSE IF r.call = "read_single_user_stats" \/ r.status = 400 THEN "user"
    ELSE IF r.status = 404 THEN "unknown"
    ELSE IF r.body = MSG_ROOT THEN "root"
    ELSE "status"

\* ------------------------------------------------------------------------
\* C2 .. C10
\* ------------------------------------------------------------------------

\* C2: whenever an append fails while read_pool_status or read_user_stats
\* builds a response, the body queued is {"error":"Buffer overflow"}; and a
\* body these two hand out is never a part of the array or object: an
\* append fails exactly when the whole body and its terminator exceed
\* 10 MiB, and without a failure the body is the whole array or object.
C2_OverflowDiscardsBuild ==
    (Responded /\ resp.method = "GET"
       /\ \/ resp.call = "read_pool_status" /\ fs.poolOK
          \/ resp.call = "read_user_stats" /\ fs.usersOK)
    => /\ resp.overflow <=> BLen(WholeBody(resp)) + 1 > MAX_RESPONSE_SIZE
       /\ resp.overflow => resp.body = MSG_OVERFLOW
       /\ ~resp.overflow => resp.body = WholeBody(resp)

\* A users directory too large for one response was asked for and answered
\* with the overflow object.
C2_Witness ==
    /\ Responded
    /\ resp.call = "read_user_stats"
    /\ resp.overflow
    /\ resp.body = MSG_OVERFLOW
    /\ BLen(WholeObject(fs, resp.race)) > MAX_RESPONSE_SIZE

\* C3 as stated: a GET of /api/users/<address>, the address of 1..99 bytes
\* equal ignoring case to the name of a file of at most 64 KiB, nothing
\* changing meanwhile, gets 200 and exactly the bytes of that file.
C3_AsStated ==
    (Responded /\ resp.method = "GET" /\ HasPrefix(resp.url) /\ resp.race = NoRace
       /\ BLen(AddressOf(resp.url)) \in 1..99 /\ fs.usersOK)
    => \A i \in MatchSet(fs, AddressOf(resp.url)) :
          BLen(fs.users[i].content) <= 65536
          => resp.status = 200 /\ resp.body = fs.users[i].content

\* C3, amended: a GET of /api/users/<address>, the address of 1..99 bytes,
\* nothing changing meanwhile, where the first entry in enumeration order
\* (other than "." and "..") whose name equals the address ignoring case is
\* a file of at most 64 KiB, gets 200 and exactly the bytes of that first
\* entry, for every case variation of the address.
C3_FirstMatchServed ==
    (Responded /\ resp.method = "GET" /\ HasPrefix(resp.url) /\ resp.race = NoRace
       /\ BLen(AddressOf(resp.url)) \in 1..99
       /\ FirstMatch(fs, AddressOf(resp.url)) # 0)
    => LET file == fs.users[FirstMatch(fs, AddressOf(resp.url))]
       IN  BLen(file.content) <= 65536
           => resp.status = 200 /\ resp.body = file.content

\* /api/users/XYZ was asked for where the file is named xyz, and its
\* content came back.
C3_Witness ==
    /\ Responded
    /\ resp.method = "GET"
    /\ resp.url = UserUrl(N_XYZ)
    /\ MatchSet(fs, N_XYZ) # {}
    /\ fs.users[FirstMatch(fs, N_XYZ)].name = N_xyz
    /\ resp.status = 200
    /\ resp.body = C_hash

\* C4: read_single_user_stats on a resolved file that stays as it is
\* returns the content when stat gives 65536 bytes or less, and the size
\* error object with the size in it when stat gives 65537 or more; and no
\* handler opens a file for which stat gave more than 64 KiB.
C4_SizeLimit ==
    Responded
    => /\ (resp.call = "read_single_user_stats" /\ ~resp.actual.null
             /\ resp.race = NoRace)
          => LET file == FileOf(fs, resp.actual.s)
                 size == BLen(file.content)
             IN  /\ size <= 65536 => resp.body = file.content
                 /\ size >= 65537 =>
                      resp.body = Cat(Cat(Cat(Cat(FMT_TOO_LARGE_A, Dec(size)),
                                              FMT_TOO_LARGE_B),
                                          AddressOf(resp.url)), FMT_CLOSE)
       /\ \A k \in 1..Len(resp.ops) :
            (resp.ops[k].op = "fopen" /\ resp.ops[k].dir = "users")
            => BLen(FileOf(fs, resp.ops[k].name).content) <= 65536

\* A file of exactly 64 KiB was asked for and came back whole.
C4_Witness ==
    /\ Responded
    /\ resp.call = "read_single_user_stats"
    /\ ~resp.actual.null
    /\ resp.race = NoRace
    /\ BLen(FileOf(fs, resp.actual.s).content) = 65536
    /\ resp.body = FileOf(fs, resp.actual.s).content

\* C5: over a users directory that stays as it is and whose whole object
\* fits in 10 MiB, read_user_stats returns '{', the entries
\* "<name>":<content> of the files whose name does not start with '.' and
\* whose size is at most 64 KiB, joined by single commas in enumeration
\* order, and '}'; a skipped entry adds neither a key nor a comma.
C5_WholeObject ==
    (Responded /\ resp.call = "read_user_stats" /\ fs.usersOK /\ resp.race = NoRace
       /\ BLen(WholeObject(fs, NoRace)) + 1 <= MAX_RESPONSE_SIZE)
    => resp.body = WholeObject(fs, NoRace)

\* The directory of a (1 KiB), b (70 KiB) and .hidden was asked for; the
\* object has the one key "a".
C5_Witness ==
    /\ Responded
    /\ resp.call = "read_user_stats"
    /\ resp.race = NoRace
    /\ \E i, j, k \in 1..Len(fs.users) :
         /\ i < j
         /\ fs.users[i].name = N_a /\ BLen(fs.users[i].content) = 1024
         /\ fs.users[j].name = N_b /\ BLen(fs.users[j].content) > 65536
         /\ fs.users[k].name = N_hidden
    /\ resp.body = Cat(Cat(Str(<<"{", "\"", "a", "\"", ":">>), C_1k), Str(<<"}">>))

\* C6: find_user_file_case_insensitive returns the name on disk of the
\* first entry in enumeration order, other than "." and "..", whose name
\* equals the query ignoring case, and NULL exactly when there is no such
\* entry or the directory cannot be opened.
C6_ResolveFirstMatch ==
    (Responded /\ resp.call = "read_single_user_stats")
    => resp.actual =
         IF FirstMatch(fs, AddressOf(resp.url)) = 0 THEN NULL
         ELSE Ptr(fs.users[FirstMatch(fs, AddressOf(resp.url))].name)

\* The query AbC123 resolved to the entry abc123.
C6_Witness ==
    /\ Responded
    /\ resp.call = "read_single_user_stats"
    /\ AddressOf(resp.url) = Str(<<"A", "b", "C", "1", "2", "3">>)
    /\ resp.actual = Ptr(N_abc123)

\* C7: a request whose method is not GET gets 405 and
\* {"error":"Only GET method supported"} whatever its path, no aggregator
\* is called for it and no file-system call is made.
C7_MethodNotAllowed ==
    (Responded /\ resp.method # "GET")
    => /\ resp.status = 405
       /\ resp.body = MSG_METHOD
       /\ resp.call = "none"
       /\ resp.ops = <<>>

\* POST /api/pool was answered with 405.
C7_Witness ==
    /\ Responded
    /\ resp.method = "POST"
    /\ resp.url = URL_POOL
    /\ resp.status = 405

\* C8 as stated: a GET whose path matches no route gets 404 and
\* {"error":"Not found","path":"<path>"} with the whole path in it,
\* however long the path is.
C8_AsStated ==
    (Responded /\ resp.method = "GET"
       /\ FirstRule(SpecOrder, 1, Matching(resp.url)) = "unknown")
    => /\ resp.status = 404
       /\ resp.body = Cat(Cat(FMT_NOT_FOUND, resp.url), FMT_CLOSE)

\* A path of 301 bytes that matches no route was asked for; the body is
\* the first 255 bytes of the text, cut in the echoed path.
C8_Witness ==
    /\ Responded
    /\ resp.method = "GET"
    /\ resp.status = 404
    /\ BLen(resp.url) = 301
    /\ BLen(resp.body) = 255
    /\ resp.body = Take(Cat(Cat(FMT_NOT_FOUND, resp.url), FMT_CLOSE), 255)

\* C9 as stated: a GET on the prefix /api/users/ calls
\* read_single_user_stats exactly when the rest of the path has 1..99
\* bytes, and gets 400, {"error":"Invalid user address"} and no
\* file-system call otherwise.
C9_AsStated ==
    (Responded /\ resp.method = "GET" /\ HasPrefix(resp.url))
    => /\ resp.call = "read_single_user_stats"
            <=> BLen(AddressOf(resp.url)) \in 1..99
       /\ BLen(AddressOf(resp.url)) \notin 1..99
            => /\ resp.status = 400
               /\ resp.body = MSG_INVALID_ADDRESS
               /\ resp.ops = <<>>

\* C9, amended: a GET on the prefix /api/users/ followed by at least one
\* byte calls read_single_user_stats exactly when that rest has fewer
\* than 100 bytes, and gets 400, {"error":"Invalid user address"} and no
\* file-system call otherwise; the path /api/users/ itself is served by
\* read_user_stats.
C9_NonEmptyAddress ==
    (Responded /\ resp.method = "GET" /\ HasPrefix(resp.url))
    => IF AddressOf(resp.url) = <<>>
       THEN resp.call = "read_user_stats" /\ resp.status = 200
       ELSE /\ resp.call = "read_single_user_stats"
                 <=> BLen(AddressOf(resp.url)) < 100
            /\ BLen(AddressOf(resp.url)) >= 100
                 => /\ resp.status = 400
                    /\ resp.body = MSG_INVALID_ADDRESS
                    /\ resp.call = "none"
                    /\ resp.ops = <<>>

\* An address of exactly 100 bytes was refused with 400.
C9_Witness ==
    /\ Responded
    /\ resp.method = "GET"
    /\ HasPrefix(resp.url)
    /\ BLen(AddressOf(resp.url)) = 100
    /\ resp.status = 400
    /\ resp.body = MSG_INVALID_ADDRESS

\* C10 as stated: the branch a GET is served by is first match over the
\* rules of the specification in their order, and is the same in whatever
\* order the tests are made.
C10_AsStated ==
    (Responded /\ resp.method = "GET")
    => LET matching == Matching(resp.url)
           served   == Served(resp)
       IN  /\ served = FirstRule(SpecOrder, 1, matching)
           /\ \A o \in Orders : FirstRule(o, 1, matching) = served

\* C10, amended: the branch a GET is served by is first match over the
\* rules of the specification in their order, and is the same in every
\* order of the tests that makes the test of the exact paths /api/users
\* and /api/users/ before the test of the prefix /api/users/; the paths the
\* capability descriptor lists are served with a status other than 404.
C10_FirstMatchRouting ==
    (Responded /\ resp.method = "GET")
    => LET matching == Matching(resp.url)
           served   == Served(resp)
       IN
       /\ served = FirstRule(SpecOrder, 1, matching)
       /\ \A o \in ExactFirstOrders : FirstRule(o, 1, matching) = served
       /\ resp.url \in {URL_STATUS, URL_POOL, URL_USERS,
                        Cat(URL_USERS_SLASH,
                            Str(<<"{", "a", "d", "d", "r", "e", "s", "s", "}">>))}
            => resp.status # 404

\* /api/users/ was asked for and served by read_user_stats, the exact path
\* having been tested before the prefix.
C10_Witness ==
    /\ Responded
    /\ resp.method = "GET"
    /\ resp.url = URL_USERS_SLASH
    /\ resp.call = "read_user_stats"
    /\ Served(resp) = FirstRule(SpecOrder, 1, Matching(resp.url))

\* ------------------------------------------------------------------------
\* C11 .. C20
\* ------------------------------------------------------------------------

\* The rule of the routing table that serves a path.
RuleOf(url) == FirstRule(SpecOrder, 1, Matching(url))

\* C11: every response carries Content-Type: application/json and
\* Access-Control-Allow-Origin: *; its status is 405 exactly for a method
\* other than GET, 400 exactly for a GET served by the prefix rule with an
\* address not of 1..99 bytes, 404 exactly for a GET that matches no rule,
\* and 200 in every other case, the bodies that are error objects of
\* read_single_user_stats, read_user_stats and read_pool_status included.
C11_HeadersAndStatus ==
    Responded
    => /\ resp.headers = {<<"Content-Type", "application/json">>,
                          <<"Access-Control-Allow-Origin", "*">>}
       /\ resp.status \in {200, 400, 404, 405}
       /\ resp.status = 405 <=> resp.method # "GET"
       /\ resp.status = 400 <=> /\ resp.method = "GET"
                                /\ RuleOf(resp.url) = "user"
                                /\ BLen(AddressOf(resp.url)) \notin 1..99
       /\ resp.status = 404 <=> resp.method = "GET" /\ RuleOf(resp.url) = "unknown"

\* A user that is not there was asked for: the body is the user-not-found
\* object, the status 200, both headers set.
C11_Witness ==
    /\ Responded
    /\ resp.method = "GET"
    /\ resp.call = "read_single_user_stats"
    /\ resp.actual.null
    /\ resp.body = Cat(Cat(FMT_USER_NOT_FOUND, AddressOf(resp.url)), FMT_CLOSE)
    /\ resp.status = 200
    /\ <<"Access-Control-Allow-Origin", "*">> \in resp.headers

\* The lines of a text, each without the newline that ends it; a last
\* piece without a newline is a line when it is not empty.
RECURSIVE LinesOf(_, _, _)
LinesOf(text, i, cur) ==
    IF i > Len(text) THEN (IF cur = <<>> THEN <<>> ELSE <<cur>>)
    ELSE IF text[i].c = "LF"
         THEN <<cur>> \o [k \in 1..(text[i].n - 1) |-> <<>>] \o LinesOf(text, i + 1, <<>>)
         ELSE LinesOf(text, i + 1, Cat(cur, <<text[i]>>))

Min(a, b) == IF a < b THEN a ELSE b

\* lines[1], ..., lines[n] joined by single commas.
RECURSIVE JoinCommas(_, _)
JoinCommas(lines, n) ==
    IF n = 0 THEN <<>>
    ELSE IF n = 1 THEN lines[1]
    ELSE Cat(Cat(JoinCommas(lines, n - 1), Str(<<",">>)), lines[n])

\* '[' + the first min(n, 3) lines joined by commas + ']'.
FirstThree(text) ==
    Cat(Cat(Str(<<"[">>),
            JoinCommas(LinesOf(text, 1, <<>>), Min(Len(LinesOf(text, 1, <<>>)), 3))),
        Str(<<"]">>))

\* C12 as stated: for every openable pool status file the body of
\* read_pool_status is '[' + the first min(n, 3) lines without their
\* newline, joined by commas + ']'.
C12_AsStated ==
    (Responded /\ resp.call = "read_pool_status" /\ fs.poolOK)
    => resp.body = FirstThree(fs.pool)

\* C12: for an openable pool status file whose array of the first three
\* lines fits the 10 MiB limit together with its terminator, the body of
\* read_pool_status is '[' + the first min(n, 3) lines, each without the
\* one newline that ends it, joined by single commas + ']' ('[]' for an
\* empty file); nothing from the 4th line on is in it.
C12_FirstThreeLines ==
    (/\ Responded
     /\ resp.call = "read_pool_status"
     /\ fs.poolOK
     /\ BLen(FirstThree(fs.pool)) + 1 <= MAX_RESPONSE_SIZE)
    => /\ resp.body = FirstThree(fs.pool)
       /\ resp.status = 200
       /\ ~resp.overflow

\* A file of four lines, the fourth of 10 MiB, was read: the body is the
\* array of the first three.
C12_Witness ==
    /\ Responded
    /\ resp.call = "read_pool_status"
    /\ fs.poolOK
    /\ Len(LinesOf(fs.pool, 1, <<>>)) = 4
    /\ BLen(fs.pool) > MAX_RESPONSE_SIZE
    /\ resp.body = Cat(Cat(Cat(Str(<<"[">>), L_1), Cat(Str(<<",">>), L_2)),
                       Cat(Cat(Str(<<",">>), L_3), Str(<<"]">>)))

\* The paths of the pool rule.
PoolPath(url) == url \in {URL_POOL, URL_POOL_SLASH}

\* C13: a GET of /api/pool always gets a response with status 200 and a
\* body; when the pool status file cannot be opened the body is the error
\* object {"error":"Cannot open pool status file"}, and nothing but the
\* failed fopen touched the file system.
C13_PoolAlwaysAnswers ==
    (Responded /\ resp.method = "GET" /\ PoolPath(resp.url))
    => /\ resp.call = "read_pool_status"
       /\ resp.status = 200
       /\ resp.body # <<>>
       /\ ByteAt(resp.body, 0) \in {"[", "{"}
       /\ ~fs.poolOK
          => /\ resp.body = Str(<<"{", "\"", "e", "r", "r", "o", "r", "\"", ":", "\"",
                                  "C", "a", "n", "n", "o", "t", " ", "o", "p", "e", "n", " ",
                                  "p", "o", "o", "l", " ", "s", "t", "a", "t", "u", "s", " ",
                                  "f", "i", "l", "e", "\"", "}">>)
             /\ resp.ops = <<Op("fopen", "pool", <<>>, FALSE)>>

\* /api/pool was asked for while the status file could not be opened.
C13_Witness ==
    /\ Responded
    /\ resp.method = "GET"
    /\ PoolPath(resp.url)
    /\ ~fs.poolOK
    /\ resp.status = 200
    /\ resp.body = MSG_POOL_OPEN

\* {"error":"User not found","address":"<address>"}
NotFoundObject(address) ==
    Cat(Cat(Str(<<"{", "\"", "e", "r", "r", "o", "r", "\"", ":", "\"", "U",
            "s", "e", "r", " ", "n", "o", "t", " ", "f", "o", "u", "n", "d",
            "\"", ",", "\"", "a", "d", "d", "r", "e", "s", "s", "\"", ":",
            "\"">>),
            address),
        Str(<<"\"", "}">>))

\* What touches a file: stat, fopen, fread.
FileOps(ops) == {i \in 1..Len(ops) : ops[i].op \in {"stat", "fopen", "fread"}}

\* C14: when the resolver returns NULL for an address, because no entry
\* matches ignoring case or because the users directory cannot be opened,
\* read_single_user_stats returns {"error":"User not found","address":...}
\* with the whole address asked for, the same for both causes, the status
\* is 200, and no file was stat'ed, opened or read.
C14_NotFoundObject ==
    (Responded /\ resp.call = "read_single_user_stats" /\ resp.actual.null)
    => /\ resp.body = NotFoundObject(AddressOf(resp.url))
       /\ resp.status = 200
       /\ FileOps(resp.ops) = {}
       /\ resp.ops = IF fs.usersOK
                     THEN <<Op("opendir", "users", <<>>, TRUE),
                            Op("closedir", "users", <<>>, TRUE)>>
                     ELSE <<Op("opendir", "users", <<>>, FALSE)>>

\* A user was asked for while the users directory could not be opened.
C14_Witness ==
    /\ Responded
    /\ resp.call = "read_single_user_stats"
    /\ resp.actual.null
    /\ ~fs.usersOK
    /\ resp.body = NotFoundObject(AddressOf(resp.url))

\* A user was asked for that no entry of an openable directory matches.
C14_WitnessNoMatch ==
    /\ Responded
    /\ resp.call = "read_single_user_stats"
    /\ resp.actual.null
    /\ fs.usersOK
    /\ Len(fs.users) > 2
    /\ resp.body = NotFoundObject(AddressOf(resp.url))

\* The entries of the users directory whose name does not start with '.'.
Visible(f) == {i \in 1..Len(f.users) : ByteAt(f.users[i].name, 0) # "."}

\* The entries read_user_stats cannot take: the stat or the fopen fails,
\* or the size is over 64 KiB.
Failing(f, race) ==
    {i \in Visible(f) : \/ race.at \in {"stat", "open"} /\ race.name = f.users[i].name
                        \/ BLen(f.users[i].content) > 64 * 1024}

\* The calls of `ops` on the entry `name`.
OpsOn(ops, name) == {i \in 1..Len(ops) : ops[i].dir = "users" /\ ops[i].name = name}

\* C15: in read_user_stats an entry whose stat fails, whose size is over
\* 64 KiB or whose fopen fails is left out and nothing else: every visible
\* entry of the directory is still stat'ed, every entry that can be taken
\* is read, and the body (when it fits 10 MiB) is the whole object of the
\* entries that can be taken, with status 200.
C15_FailureSkipsOneEntry ==
    (/\ Responded
     /\ resp.call = "read_user_stats"
     /\ fs.usersOK
     /\ resp.race.at # "read"
     /\ Failing(fs, resp.race) # {}
     /\ BLen(WholeObject(fs, resp.race)) + 1 <= MAX_RESPONSE_SIZE)
    => /\ resp.status = 200
       /\ ~resp.overflow
       /\ resp.body = WholeObject(fs, resp.race)
       /\ \A i \in Visible(fs) :
            \E k \in OpsOn(resp.ops, fs.users[i].name) : resp.ops[k].op = "stat"
       /\ \A i \in Visible(fs) \ Failing(fs, resp.race) :
            \E k \in OpsOn(resp.ops, fs.users[i].name) :
               resp.ops[k].op = "fread" /\ resp.ops[k].ok
       /\ resp.ops[Len(resp.ops)] = Op("closedir", "users", <<>>, TRUE)

\* The directory b (64 KiB + 1), xyz, abc123 was asked for while xyz could
\* not be opened: two entries in a row are left out and the third is the
\* object.
C15_Witness ==
    /\ Responded
    /\ resp.call = "read_user_stats"
    /\ resp.race = [at |-> "open", name |-> N_xyz, new |-> <<>>]
    /\ Len(fs.users) = 5
    /\ fs.users[1].name = N_b /\ BLen(fs.users[1].content) = 65537
    /\ fs.users[3].name = N_xyz
    /\ fs.users[5].name = N_abc123
    /\ resp.body = Cat(Cat(Str(<<"{", "\"">>), N_abc123), Str(<<"\"", ":", "}">>))
    /\ resp.status = 200

\* The same with the stat of xyz failing.
C15_WitnessStat ==
    /\ Responded
    /\ resp.call = "read_user_stats"
    /\ resp.race = [at |-> "stat", name |-> N_xyz, new |-> <<>>]
    /\ Len(fs.users) = 5
    /\ fs.users[5].name = N_abc123
    /\ resp.body = Cat(Cat(Str(<<"{", "\"">>), N_abc123), Str(<<"\"", ":", "}">>))

\* C19: in every state of a build, after the allocation and after every
\* safe_append whether it returned 0 or -1, used < buffer_size; the block
\* has buffer_size bytes and the byte at index `used` is the terminator,
\* so the terminator lies inside the block.
C19_UsedBelowCapacity ==
    /\ buf.used < buf.size
    /\ BLen(buf.mem) = buf.size
    /\ ByteAt(buf.mem, buf.used) = "NUL"

\* A buffer grown to 10 MiB and filled up to its last byte, on which a
\* further safe_append has failed.
C19_Witness ==
    /\ Len(rcs) >= 2
    /\ rcs[Len(rcs)] = -1
    /\ hist[Len(hist)] # <<>>
    /\ buf.size = MAX_RESPONSE_SIZE
    /\ buf.used = MAX_RESPONSE_SIZE - 1
    /\ ByteAt(buf.mem, buf.used) = "NUL"

\* The capacity after growth steps from capacity c for `need` bytes: each
\* step, taken only while need > c and c is under 10 MiB, sets c to
\* min(2 x c, 10 MiB).
RECURSIVE GrownTo(_, _)
GrownTo(c, need) ==
    IF need > c /\ c < 10 * 1024 * 1024
    THEN GrownTo(Min(2 * c, 10 * 1024 * 1024), need)
    ELSE c

\* C20: over every safe_append of a build the capacity does not decrease
\* and is never above 10 MiB; it is what growth steps to min(2 x capacity,
\* 10 MiB) give, and it changes only when used + len + 1 > capacity.
C20_CapacityGrowth ==
    [][ /\ buf'.size >= buf.size
        /\ buf.size <= MAX_RESPONSE_SIZE
        /\ buf'.size <= MAX_RESPONSE_SIZE
        /\ buf'.size = GrownTo(buf.size, buf.used + BLen(hist'[Len(hist')]) + 1)
        /\ buf'.size # buf.size => buf.used + BLen(hist'[Len(hist')]) + 1 > buf.size
      ]_vars

\* One append took a fresh buffer to 10 MiB, the last growth step being
\* the capped one.
C20_Witness ==
    /\ Len(hist) = 1
    /\ rcs = <<0>>
    /\ BLen(hist[1]) + 1 > 8 * 1024 * 1024
    /\ BLen(hist[1]) + 1 < MAX_RESPONSE_SIZE
    /\ buf.size = MAX_RESPONSE_SIZE

\* The daemons that are listening.
Listening == {d \in 1..Len(daemons) : daemons[d].listening}

\* The init calls and the stop calls that have returned.
InitCalls == {k \in 1..Len(calls) : calls[k].op = "init"}
StopCalls == {k \in 1..Len(calls) : calls[k].op = "stop"}

\* C17: whatever the interleaving of api_server_init and api_server_stop
\* calls, at most one daemon is listening at any time, and it is the one
\* http_daemon points to; an init call that finds a daemon running returns
\* -1 and leaves http_daemon and the daemon as they were; an init call
\* returns 0 only when it found no daemon and started one itself, which
\* is then the running one.
C17_AtMostOneDaemon ==
    /\ Cardinality(Listening) <= 1
    /\ \A d \in Listening : http_daemon = d
    /\ \A k \in InitCalls :
         /\ calls[k].before.http_daemon # 0
            => /\ calls[k].ret = -1
               /\ calls[k].after = calls[k].before
         /\ calls[k].ret = 0
            => /\ calls[k].before.http_daemon = 0
               /\ calls[k].started \notin 1..Len(calls[k].before.daemons)
               /\ calls[k].started \in 1..Len(calls[k].after.daemons)
               /\ calls[k].after.daemons[calls[k].started].listening
               /\ calls[k].after.http_daemon = calls[k].started
         /\ calls[k].ret \in {0, -1}

\* One thread's init started a daemon; the other thread's init, waiting
\* for the mutex meanwhile, then found it running and returned -1.
C17_Witness ==
    /\ Len(calls) >= 2
    /\ calls[1].op = "init" /\ calls[1].ret = 0
    /\ calls[2].op = "init" /\ calls[2].ret = -1 /\ calls[2].why = "already"
    /\ calls[1].thread # calls[2].thread
    /\ calls[2].before.http_daemon = calls[1].started
    /\ Listening = {calls[1].started}

\* C18: api_server_stop is idempotent.  A stop that finds a daemon running
\* stops that daemon, once, and sets http_daemon to NULL; a stop that
\* finds none changes nothing; no daemon is ever stopped twice; of two
\* stops in a row the second leaves the state the first left; and an init
\* that follows a stop is not turned away as already running.
C18_StopIdempotent ==
    /\ \A d \in 1..Len(daemons) :
         /\ daemons[d].stops <= 1
         /\ daemons[d].listening <=> daemons[d].stops = 0
    /\ \A k \in StopCalls :
         /\ calls[k].after.http_daemon = 0
         /\ IF calls[k].before.http_daemon = 0
            THEN calls[k].after = calls[k].before
            ELSE calls[k].after.daemons =
                   [calls[k].before.daemons EXCEPT ![calls[k].before.http_daemon] =
                      [port |-> @.port, listening |-> FALSE, stops |-> 1]]
    /\ \A k \in StopCalls :
         k < Len(calls)
         => /\ calls[k + 1].op = "stop" => calls[k + 1].after = calls[k].after
            /\ calls[k + 1].op = "init" => calls[k + 1].why # "already"

\* init, stop, stop, init: the daemon of the first init was stopped by the
\* first stop, the second stop changed nothing, the second init started a
\* daemon of its own.
C18_Witness ==
    /\ Len(calls) = 4
    /\ calls[1].op = "init" /\ calls[1].ret = 0
    /\ calls[2].op = "stop" /\ calls[2].before.http_daemon = calls[1].started
    /\ calls[3].op = "stop" /\ calls[3].after = calls[2].after
    /\ calls[4].op = "init" /\ calls[4].ret = 0
    /\ daemons[calls[1].started].stops = 1
    /\ Listening = {calls[4].started}

\* What a request gets when it is handled alone, in one piece.
Alone(f, c) == handle_request(f, c.method, c.url, 0, NoRace)

\* C16: with two requests handled at the same time, a step of one
\* connection thread leaves the build (block, capacity, used length) of the
\* other as it was, a failed build included, and the response each
\* connection queues (status, body, headers) is the one the same request
\* gets when handled alone over the same files; a queued response does not
\* change afterwards.
C16_BuildsAreLocal ==
    [][ \A c \in Connections :
          /\ conn'[c] = conn[c] => bufs'[c] = bufs[c]
          /\ conn[c].pc = "done" => conn'[c] = conn[c]
          /\ (conn[c].pc # "done" /\ conn'[c].pc = "done")
             => conn'[c].resp = Alone(fs, conn'[c])
      ]_vars

\* One connection's build of the users object has overflowed and got the
\* overflow body while the other connection is in the middle of the same
\* build, its buffer grown and intact.
C16_Witness ==
    /\ conn[1].pc = "done"
    /\ conn[1].resp.overflow
    /\ conn[1].resp.status = 200
    /\ conn[2].pc = "users"
    /\ conn[2].i > 3
    /\ bufs[2].rc = 0
    /\ bufs[2].b.used > INITIAL_BUFFER_SIZE
    /\ bufs[2].b.used < bufs[2].b.size

\* ------------------------------------------------------------------------
\* C21 .. C29
\* ------------------------------------------------------------------------

\* The safe_append call of this step returned -1.
AppendFailed == Len(rcs') = Len(rcs) + 1 /\ rcs'[Len(rcs')] = -1

\* C21 as stated: a safe_append that fails because the string does not fit
\* under the 10 MiB limit leaves the capacity, the used length and the
\* bytes of the buffer as they were before the call.
C21_AsStated == [][AppendFailed => buf' = buf]_vars

\* C21, what the code keeps: over a failed safe_append the used length and
\* the used bytes with their terminator are unchanged, and the capacity
\* has not decreased.
C21_ContentKept ==
    [][AppendFailed
       => /\ buf'.used = buf.used
          /\ Take(buf'.mem, buf.used + 1) = Take(buf.mem, buf.used + 1)
          /\ buf'.size >= buf.size]_vars

\* The first safe_append on a fresh buffer has failed and the buffer, still
\* empty, has 10 MiB: more than either preset.
C21_Witness ==
    /\ rcs = <<-1>>
    /\ buf.used = 0
    /\ ByteAt(buf.mem, 0) = "NUL"
    /\ buf.size = MAX_RESPONSE_SIZE
    /\ buf.size > INITIAL_BUFFER_SIZE

\* read_single_user_stats asked for `name` resolves it to the entry of
\* that name, reads the file and returns what it read.
ReturnsContent(f, name) ==
    /\ read_single_user_stats(f, name, NoRace).actual = Ptr(name)
    /\ \E k \in 1..Len(read_single_user_stats(f, name, NoRace).ops) :
          read_single_user_stats(f, name, NoRace).ops[k].op = "fread"

\* The response at hand is a users object for which entry i was read,
\* which is when its name is a key of the object (C5).
IsKey(i) ==
    \E k \in OpsOn(resp.ops, fs.users[i].name) : resp.ops[k].op = "fread"

\* A users object over an unchanged directory that fits in 10 MiB.
StaticObject ==
    /\ Responded
    /\ resp.call = "read_user_stats"
    /\ fs.usersOK
    /\ resp.race = NoRace
    /\ ~resp.overflow

\* C24 as stated: over a static directory whose object fits in 10 MiB,
\* every name of the directory for which read_single_user_stats returns
\* file content is a key of the object of read_user_stats.
C24_AsStated ==
    StaticObject
    => \A i \in 1..Len(fs.users) :
          ReturnsContent(fs, fs.users[i].name) => IsKey(i)

\* C24, what the code does: the same for the names that do not start with
\* a dot; read_user_stats leaves out every entry whose name starts with
\* '.', the resolver only "." and "..".
C24_VisibleNames ==
    StaticObject
    => /\ \A i \in 1..Len(fs.users) :
            (ByteAt(fs.users[i].name, 0) # "." /\ ReturnsContent(fs, fs.users[i].name))
            => IsKey(i)
       /\ \A i \in 1..Len(fs.users) : ByteAt(fs.users[i].name, 0) = "." => ~IsKey(i)

\* GET /api/users/.hidden was answered with the content of the file
\* .hidden of the users directory.
C24_Witness ==
    /\ Responded
    /\ resp.call = "read_single_user_stats"
    /\ AddressOf(resp.url) = Str(<<".", "h", "i", "d", "d", "e", "n">>)
    /\ resp.actual = Ptr(AddressOf(resp.url))
    /\ resp.status = 200
    /\ resp.body = FileOf(fs, AddressOf(resp.url)).content
    /\ resp.body # <<>>

\* The names readdir gives for the users directory.
Enumerated(f) == {f.users[i].name : i \in 1..Len(f.users)}

\* The address has the byte '/' in it.
HasSlash(address) == \E i \in 1..Len(address) : address[i].c = "/"

\* C27: every stat, fopen, fread and fclose of read_single_user_stats is on
\* an entry of the users directory named as readdir gave it, never "." or
\* ".." and never a name with '/' in it; the address of the request is
\* only compared, so an address with '/' in it or equal to "." or ".."
\* resolves to nothing and touches no file.
C27_OnlyEnumeratedNames ==
    (Responded /\ resp.call = "read_single_user_stats")
    => /\ \A k \in 1..Len(resp.ops) :
            resp.ops[k].op \in {"stat", "fopen", "fread", "fclose"}
            => /\ resp.ops[k].dir = "users"
               /\ resp.ops[k].name \in Enumerated(fs)
               /\ resp.ops[k].name \notin {Str(<<".">>), Str(<<".", ".">>)}
               /\ ~HasSlash(resp.ops[k].name)
               /\ resp.ops[k].name = resp.actual.s
       /\ (\/ HasSlash(AddressOf(resp.url))
           \/ AddressOf(resp.url) \in {Str(<<".">>), Str(<<".", ".">>)})
          => /\ resp.actual.null
             /\ FileOps(resp.ops) = {}
             /\ resp.body = NotFoundObject(AddressOf(resp.url))

\* The address ../xyz was asked for in a directory that has the file xyz:
\* nothing resolved, no file was touched.
C27_Witness ==
    /\ Responded
    /\ resp.call = "read_single_user_stats"
    /\ AddressOf(resp.url) = Str(<<".", ".", "/", "x", "y", "z">>)
    /\ Str(<<"x", "y", "z">>) \in Enumerated(fs)
    /\ resp.actual.null
    /\ FileOps(resp.ops) = {}

\* The address .. was asked for, the directory having the entry "..".
C27_WitnessDotDot ==
    /\ Responded
    /\ resp.call = "read_single_user_stats"
    /\ AddressOf(resp.url) = Str(<<".", ".">>)
    /\ Str(<<".", ".">>) \in Enumerated(fs)
    /\ resp.actual.null

\* The size stat gave for the entry `name`: the file is replaced after
\* the stat, so it is the size of what the directory holds.
Observed(f, name) == BLen(FileOf(f, name).content)

\* C28: when a file is replaced by a longer or a shorter one between the
\* stat and the fread, read_single_user_stats returns at most as many
\* bytes as stat gave, the first of the new content, and never more than
\* 64 KiB; in the object of read_user_stats the record of that file is
\* likewise the first bytes of the new content up to the size stat gave,
\* so the object is not longer than over the files as they were.
C28_ReadBoundedByStat ==
    (Responded /\ resp.race.at = "read")
    => /\ (/\ resp.call = "read_single_user_stats"
           /\ resp.actual = Ptr(resp.race.name)
           /\ \E k \in OpsOn(resp.ops, resp.race.name) : resp.ops[k].op = "fread")
          => /\ BLen(resp.body) <= Observed(fs, resp.race.name)
             /\ BLen(resp.body) <= 64 * 1024
             /\ resp.body = Take(resp.race.new, Observed(fs, resp.race.name))
       /\ (resp.call = "read_user_stats" /\ ~resp.overflow)
          => /\ BLen(resp.body) <= BLen(WholeObject(fs, NoRace))
             /\ resp.body = WholeObject(fs, resp.race)

\* The file a (1 KiB) grew to 70 KiB between stat and fread while the
\* users object was built: its record has the first 1 KiB of the new
\* content.
C28_Witness ==
    /\ Responded
    /\ resp.call = "read_user_stats"
    /\ resp.race.at = "read"
    /\ resp.race.name = Str(<<"a">>)
    /\ BLen(resp.race.new) > 64 * 1024
    /\ Observed(fs, resp.race.name) = 1024
    /\ resp.body = Cat(Cat(Str(<<"{", "\"", "a", "\"", ":">>), Take(resp.race.new, 1024)),
                       Str(<<"}">>))

\* The file xyz shrank to 2 bytes between stat and fread of
\* read_single_user_stats: the body is those 2 bytes.
C28_WitnessShrink ==
    /\ Responded
    /\ resp.call = "read_single_user_stats"
    /\ resp.race.at = "read"
    /\ resp.actual = Ptr(resp.race.name)
    /\ Observed(fs, resp.race.name) > 2
    /\ resp.body = Str(<<"{", "}">>)

\* The init call that started the daemon http_daemon points to.
StartedBy(k) == calls[k].op = "init" /\ calls[k].ret = 0 /\ calls[k].started = http_daemon

\* C23 as stated: while the daemon started by a returned api_server_init
\* is running, no step changes log_dir_path.
C23_AsStated ==
    [][(/\ http_daemon # NO_DAEMON
        /\ http_daemon' = http_daemon
        /\ \E k \in 1..Len(calls) : StartedBy(k))
       => log_dir_path' = log_dir_path]_vars

\* What holds of the path: api_server_init and api_server_stop never write
\* log_dir_path, only api_server_set_log_dir does, and it does so whether
\* or not a daemon runs and without api_mutex.
C23_OnlySetWrites ==
    [][(log_dir_path' # log_dir_path) =>
           /\ thr' = thr
           /\ http_daemon' = http_daemon
           /\ api_mutex' = api_mutex
           /\ \E d \in LogDirs : ~d.null /\ log_dir_path' = Take(d.s, 511)]_vars

\* api_server_init has returned 0, the daemon it started is running, and
\* log_dir_path holds the first 511 bytes of a 601-byte argument.
C23_Witness ==
    /\ http_daemon # NO_DAEMON
    /\ \E k \in 1..Len(calls) : StartedBy(k)
    /\ BLen(log_dir_path) = 511
    /\ log_dir_path = Cat(Str(<<"/">>), Rep("d", 510))

\* The thread holding api_mutex is between its lock and its unlock.
HolderInside == \A t \in Threads : api_mutex = t <=> thr[t].pc \in {"check", "start", "stop", "unlock"}

C29_WitnessWaiting ==
    \E t, u \in Threads :
        /\ thr[t].pc = "lock"
        /\ api_mutex = u
        /\ thr[u].pc = "unlock"
        /\ thr[u].why = "failed"

\* The events 1..n of the trace with `op` on `id`.
Count(op, id, n) ==
    Cardinality({k \in 1..n : trace.ev[k].op = op /\ trace.ev[k].id = id})

Blocks == {"result", "line", "user_stats", "actual_filename", "page"}
Handles == {"fp", "dir"}

\* The blocks `id` the call holds after event n: allocated, and neither
\* freed nor given to the transport.
Held(id, n) == Count("alloc", id, n) - Count("free", id, n) - Count("give", id, n)

\* The handles `id` open after event n.
OpenNow(id, n) == Count("open", id, n) - Count("close", id, n)

\* The call has come to its end: the response is queued.
Finished == trace.ret = "queued"

\* C22: at every point of a handle_request call each block is held at most
\* once and is only freed or given away while held (so never freed twice,
\* never freed after it was given, never given twice); nothing but a block
\* of the call is given to the transport more than once in all; and when
\* the response is queued no block is still held.
C22_BlocksOnce ==
    /\ \A id \in Blocks : \A n \in 0..Len(trace.ev) : Held(id, n) \in {0, 1}
    /\ \A n \in 1..Len(trace.ev) :
          trace.ev[n].op \in {"free", "give"} /\ trace.ev[n].id \in Blocks
          => Held(trace.ev[n].id, n - 1) = 1
    /\ Cardinality({n \in 1..Len(trace.ev) : trace.ev[n].op = "give"}) <= 1
    /\ Finished => \A id \in Blocks : Held(id, Len(trace.ev)) = 0
    /\ Finished => \E n \in 1..Len(trace.ev) : trace.ev[n].op = "give"

\* read_user_stats took one entry, failed an append at the second and
\* returned the copy of the overflow object: user_stats was allocated and
\* freed twice, result freed, the copy given to the transport.
C22_Witness ==
    /\ Finished
    /\ Count("alloc", "user_stats", Len(trace.ev)) = 2
    /\ Count("free", "user_stats", Len(trace.ev)) = 2
    /\ Count("free", "result", Len(trace.ev)) = 1
    /\ trace.ev[Len(trace.ev)] = Ev("give", "page")

\* read_single_user_stats returned the block read from the file: the name
\* was freed, the block given to the transport.
C22_WitnessSingle ==
    /\ Finished
    /\ Count("free", "actual_filename", Len(trace.ev)) = 1
    /\ trace.ev[Len(trace.ev)] = Ev("give", "result")

\* C25 as stated: at every point of a call each handle is open at most
\* once and is only closed while open, and none is open when the call
\* ends.
C25_AsStated ==
    /\ \A id \in Handles : \A n \in 0..Len(trace.ev) : OpenNow(id, n) \in {0, 1}
    /\ trace.ret = "queued" => \A id \in Handles : OpenNow(id, Len(trace.ev)) = 0

\* The same of every call but one in which malloc(file_size + 1) of
\* read_single_user_stats failed.
SingleNoMemoryTaken ==
    \E n \in 1..Len(trace.ev) - 1 :
        trace.ev[n] = Ev("close", "fp") /\ trace.ev[n + 1] = Ev("close", "fp")

C25_ElsewhereOnce == SingleNoMemoryTaken \/ C25_AsStated

\* read_single_user_stats opened the file, malloc(file_size + 1) failed,
\* and the file was closed twice.
C25_Witness ==
    /\ OpenNow("fp", Len(trace.ev)) = -1
    /\ Count("open", "fp", Len(trace.ev)) = 1
    /\ Count("close", "fp", Len(trace.ev)) = 2
    /\ Count("alloc", "actual_filename", Len(trace.ev)) = 1

\* C26 as stated: no call writes through or takes the length of a null
\* pointer, and what is given to the transport is a block.
C26_AsStated ==
    \A n \in 1..Len(trace.ev) :
        /\ trace.ev[n].op \notin {"write_null", "strlen_null"}
        /\ trace.ev[n].op = "give" => trace.ev[n].id \in Blocks

\* The allocations whose failure the code tests leave a body or skip a
\* record: a call without a failed strdup or malloc(256) has no null
\* pointer event.
C26_CheckedAllocations ==
    (\E n \in 1..Len(trace.ev) : trace.ev[n].op \in {"write_null", "strlen_null"})
    => \A id \in Blocks \ {"result", "line", "user_stats", "actual_filename"} :
          Count("alloc", id, Len(trace.ev)) = 0

\* malloc(256) failed in a call and snprintf wrote through the null
\* pointer.
C26_Witness ==
    /\ trace.ret = "crash"
    /\ Len(trace.ev) > 0
    /\ trace.ev[Len(trace.ev)] = Ev("write_null", "page")

\* strdup of an error object failed after the users directory could not be
\* opened, and strlen took the length of the null pointer.
C26_WitnessStrlen ==
    /\ trace.ev = <<Ev("strlen_null", "page"), Ev("give", "NULL")>>
    /\ Route(trace.url) = "users"

=============================================================================
